---- MODULE Spec2Model ----
(***************************************************************************)
(* Query planners of src/unnamed/part_001 (lines 128-821): the filter      *)
(* normalizer, the predicate compiler and the list, aggregation and        *)
(* history planners, over a Knex-like query builder and a small table.     *)
(*                                                                         *)
(* JavaScript values are records tagged by t:                              *)
(*   undef, null, bool (b), num (n), str (the decimal string of n),        *)
(*   date (a non-empty ISO date string, ordered by n),                     *)
(*   range (a plain object with the keys lt, lte, gt, gte), obj (another   *)
(*   plain object), list (an array).                                       *)
(* One planner invocation runs at a time; an action is the code between    *)
(* two await points.                                                       *)
(***************************************************************************)
EXTENDS Integers, Sequences, FiniteSets, TLC

\* ------------------------------------------------------------ bounds
MaxVal == 1        \* numeric filter values and column values are -1..MaxVal
MaxDate == 2       \* dates are 1..MaxDate
NbRows == 3        \* rows of the table
MaxPage == 2       \* pages asked for are 1..MaxPage
MaxPerPage == 2    \* nbResultsPerPage is 1..MaxPerPage
MaxPathLen == 6    \* the paths given to getSqlExpression have 0..MaxPathLen characters

Vals == -1..MaxVal
Dates == 1..MaxDate
Rows == 1..NbRows

\* ------------------------------------------------------------ values
UndefV == [t |-> "undef"]
NumV(n) == [t |-> "num", n |-> n]
DateV(d) == [t |-> "date", n |-> d]
ObjV(n) == [t |-> "obj", n |-> n]
ListV(n) == [t |-> "list", n |-> n]
NullV == [t |-> "null"]
BoolV(b) == [t |-> "bool", b |-> b]
StrV(n) == [t |-> "str", n |-> n]    \* the decimal string of n
RangeV(lt, lte, gt, gte) == [t |-> "range", lt |-> lt, lte |-> lte, gt |-> gt, gte |-> gte]

\* _.isUndefined
IsUndefined(v) == v.t = "undef"

\* _.isPlainObject
IsPlainObject(v) == v.t \in {"range", "obj"}

\* JavaScript truthiness: undefined, null and 0 are falsy; a non-empty string,
\* an object and an array are truthy
Truthy(v) ==
  CASE v.t = "undef" -> FALSE
    [] v.t = "null" -> FALSE
    [] v.t = "bool" -> v.b
    [] v.t = "num" -> v.n # 0
    [] OTHER -> TRUE

\* ToNumber of a number or a boolean
ToNumber(v) == IF v.t = "bool" THEN (IF v.b THEN 1 ELSE 0) ELSE v.n

\* a < b of JavaScript: numbers and booleans compare as numbers, two date
\* strings by order, any comparison with undefined (NaN) or between an object
\* and a scalar is false
JsLt(a, b) ==
  \/ a.t \in {"num", "bool"} /\ b.t \in {"num", "bool"} /\ ToNumber(a) < ToNumber(b)
  \/ a.t = "date" /\ b.t = "date" /\ a.n < b.n

\* property read v.k: a scalar has no lt, lte, gt, gte
Prop(v, k) ==
  IF v.t = "range"
    THEN (CASE k = "lt" -> v.lt [] k = "lte" -> v.lte [] k = "gt" -> v.gt [] k = "gte" -> v.gte)
    ELSE UndefV

\* ------------------------------------------------------------ filters
\* A FilterSpec: dbField ("" when absent: absent and empty are both falsy),
\* value, minValue, defaultValue, transformValue ("none" when absent, "array",
\* or a function: "toUndef" returns undefined, "const" returns 1) and query
\* ("none" when absent, "range", "inList", "jsonSupersetOf", "custom" for a
\* function, "bogus" for a string the schema refuses).
FilterSpec(dbField, value, minValue, defaultValue, transformValue, query) ==
  [dbField |-> dbField, value |-> value, minValue |-> minValue,
   defaultValue |-> defaultValue, transformValue |-> transformValue, query |-> query]

\* Object.keys(filters): insertion order, here the order of KeyOrder
KeyOrder == <<"createdDate", "second", "other">>

RECURSIVE SelectKeys(_, _)
SelectKeys(seq, dom) ==
  IF seq = <<>> THEN <<>>
  ELSE IF Head(seq) \in dom THEN <<Head(seq)>> \o SelectKeys(Tail(seq), dom)
  ELSE SelectKeys(Tail(seq), dom)

Keys(filters) == SelectKeys(KeyOrder, DOMAIN filters)

\* parseArrayValues of ./list: an array stays the array, an absent value stays absent
ParseArrayValues(v) == v

\* newValue of one filter and the object it is (the filter's own value object,
\* its defaultValue object, or a value of its own)
TransformOne(f) ==
  LET nv == CASE f.transformValue = "none" -> f.value
              [] f.transformValue = "array" -> ParseArrayValues(f.value)
              [] f.transformValue = "toUndef" -> UndefV
              [] f.transformValue = "const" -> NumV(1)
      src == IF f.transformValue \in {"none", "array"} THEN "value" ELSE "fresh"
  IN IF IsUndefined(nv) /\ ~IsUndefined(f.defaultValue)
       THEN [v |-> f.defaultValue, src |-> "defaultValue"]
       ELSE [v |-> nv, src |-> src]

getTransformedValues(filters) == [k \in DOMAIN filters |-> TransformOne(filters[k]).v]

\* which object of the filter spec each transformed value is
ValueSources(filters) == [k \in DOMAIN filters |-> TransformOne(filters[k]).src]

getMinRangeValue(rangeOrValue) ==
  IF IsUndefined(rangeOrValue) THEN UndefV
  ELSE IF ~IsPlainObject(rangeOrValue) THEN rangeOrValue
  ELSE LET gt == Prop(rangeOrValue, "gt")
           gte == Prop(rangeOrValue, "gte")
       IN IF ~IsUndefined(gt) /\ ~IsUndefined(gte) THEN (IF JsLt(gt, gte) THEN gt ELSE gte)
          ELSE IF ~IsUndefined(gt) THEN gt
          ELSE IF ~IsUndefined(gte) THEN gte
          ELSE UndefV

\* ------------------------------------------------------------ predicate compiler
\* A predicate appended to a query builder: the filter key it comes from
\* ("hook" for beforeQueryFn), the column, the operator and the operand
Pred(key, field, op, val) == [key |-> key, field |-> field, op |-> op, val |-> val]

\* rangeFilterSchema: Joi.any() accepts every defined value
checkRangeFilter(value) == ~IsUndefined(value)

\* (variant: one per defined bound)
RangePreds_DefinedBounds(key, dbField, tv) ==
  (IF ~IsUndefined(Prop(tv, "lt")) THEN <<Pred(key, dbField, "<", Prop(tv, "lt"))>> ELSE <<>>) \o
  (IF ~IsUndefined(Prop(tv, "lte")) THEN <<Pred(key, dbField, "<=", Prop(tv, "lte"))>> ELSE <<>>) \o
  (IF ~IsUndefined(Prop(tv, "gt")) THEN <<Pred(key, dbField, ">", Prop(tv, "gt"))>> ELSE <<>>) \o
  (IF ~IsUndefined(Prop(tv, "gte")) THEN <<Pred(key, dbField, ">=", Prop(tv, "gte"))>> ELSE <<>>)

\* the where() calls of a range value, one per truthy bound
RangePreds(key, dbField, tv) ==
  (IF Truthy(Prop(tv, "lt")) THEN <<Pred(key, dbField, "<", Prop(tv, "lt"))>> ELSE <<>>) \o
  (IF Truthy(Prop(tv, "lte")) THEN <<Pred(key, dbField, "<=", Prop(tv, "lte"))>> ELSE <<>>) \o
  (IF Truthy(Prop(tv, "gt")) THEN <<Pred(key, dbField, ">", Prop(tv, "gt"))>> ELSE <<>>) \o
  (IF Truthy(Prop(tv, "gte")) THEN <<Pred(key, dbField, ">=", Prop(tv, "gte"))>> ELSE <<>>)

\* the minValue step of a range filter: [err, tv], tv being the transformed value
\* after the step (gte set in place when no lower bound was given)
\* (variant: the missing lower bound is left missing)
MinValueCheck_NoInjection(tv, minRangeValue, minValue) ==
  [err |-> IF Truthy(minRangeValue) /\ JsLt(minRangeValue, minValue)
             THEN "400 value cannot be lower than minValue" ELSE "",
   tv |-> tv]

MinValueCheck(tv, minRangeValue, minValue) ==
  IF Truthy(minRangeValue)
    THEN [err |-> IF JsLt(minRangeValue, minValue) THEN "400 value cannot be lower than minValue" ELSE "",
          tv |-> tv]
    ELSE [err |-> "",
          tv |-> IF tv.t = "range" /\ IsUndefined(tv.gt) /\ IsUndefined(tv.gte)
                   THEN [tv EXCEPT !.gte = minValue]
                   ELSE tv]

MinValueStep(tv, minValue) == MinValueCheck(tv, getMinRangeValue(tv), minValue)

\* whereJsonbColumnSupersetOf: data must be a plain object
whereJsonbColumnSupersetOf(key, columnName, data) ==
  IF ~IsPlainObject(data)
    THEN [err |-> "Error data object expected", preds |-> <<>>]
    ELSE [err |-> "", preds |-> <<Pred(key, columnName, "@>", data)>>]

\* (variant: no filter is skipped)
SkipFilter_Never(transformedValue) == FALSE

\* the undefined-value test that makes a filter optional
SkipFilter(transformedValue) == IsUndefined(transformedValue)

\* the range branch once the minValue step m has run: the where() calls
RangeBranch(key, dbField, m) ==
  IF m.err # ""
    THEN [err |-> m.err, preds |-> <<>>, tv |-> m.tv]
    ELSE [err |-> "", preds |-> RangePreds(key, dbField, m.tv), tv |-> m.tv]

\* (variant: the transformed value is passed)
JsonData_Transformed(filter, transformedValue) == transformedValue

\* line 267: the data passed to whereJsonbColumnSupersetOf is the filter's value
JsonData(filter, transformedValue) == filter.value

\* the jsonSupersetOf branch, j being what whereJsonbColumnSupersetOf did
JsonBranch(j, transformedValue) == [err |-> j.err, preds |-> j.preds, tv |-> transformedValue]

\* (variant: dbField is not looked at)
CompileFilter_NoFieldCheck(key, filter, transformedValue) ==
  IF SkipFilter(transformedValue)
    THEN [err |-> "", preds |-> <<>>, tv |-> transformedValue]
  ELSE CASE filter.query = "none" ->
              [err |-> "", preds |-> <<Pred(key, filter.dbField, "=", transformedValue)>>,
               tv |-> transformedValue]
         [] filter.query = "range" ->
              IF ~checkRangeFilter(transformedValue)
                THEN [err |-> "Bad range filter", preds |-> <<>>, tv |-> transformedValue]
                ELSE RangeBranch(key, filter.dbField, MinValueStep(transformedValue, filter.minValue))
         [] filter.query = "inList" ->
              [err |-> "", preds |-> <<Pred(key, filter.dbField, "in", transformedValue)>>,
               tv |-> transformedValue]
         [] filter.query = "jsonSupersetOf" ->
              JsonBranch(whereJsonbColumnSupersetOf(key, filter.dbField, JsonData(filter, transformedValue)),
                         transformedValue)
         [] filter.query = "custom" ->
              [err |-> "", preds |-> <<Pred(key, "", "custom", transformedValue)>>,
               tv |-> transformedValue]
         [] OTHER ->
              [err |-> "", preds |-> <<>>, tv |-> transformedValue]

\* one iteration of the forEach of addFiltersToQueryBuilder:
\* [err, preds appended, tv (the transformed value afterwards)]
CompileFilter(key, filter, transformedValue) ==
  IF SkipFilter(transformedValue)
    THEN [err |-> "", preds |-> <<>>, tv |-> transformedValue]
  ELSE IF filter.query # "custom" /\ filter.dbField = ""
    THEN [err |-> "Error dbField is needed", preds |-> <<>>, tv |-> transformedValue]
  ELSE CASE filter.query = "none" ->
              [err |-> "", preds |-> <<Pred(key, filter.dbField, "=", transformedValue)>>,
               tv |-> transformedValue]
         [] filter.query = "range" ->
              IF ~checkRangeFilter(transformedValue)
                THEN [err |-> "Bad range filter", preds |-> <<>>, tv |-> transformedValue]
                ELSE RangeBranch(key, filter.dbField, MinValueStep(transformedValue, filter.minValue))
         [] filter.query = "inList" ->
              [err |-> "", preds |-> <<Pred(key, filter.dbField, "in", transformedValue)>>,
               tv |-> transformedValue]
         [] filter.query = "jsonSupersetOf" ->
              JsonBranch(whereJsonbColumnSupersetOf(key, filter.dbField, JsonData(filter, transformedValue)),
                         transformedValue)
         [] filter.query = "custom" ->
              [err |-> "", preds |-> <<Pred(key, "", "custom", transformedValue)>>,
               tv |-> transformedValue]
         [] OTHER ->
              [err |-> "", preds |-> <<>>, tv |-> transformedValue]

\* the compiler's state after the iteration c of key k
AfterFilter(st, k, c) ==
  [err |-> c.err, errKey |-> IF c.err # "" THEN k ELSE "",
   preds |-> st.preds \o c.preds,
   values |-> [st.values EXCEPT ![k] = c.tv]]

\* the forEach over Object.keys(filters): a throw ends it, what was appended
\* and set before stays
RECURSIVE AddFiltersFrom(_, _, _)
AddFiltersFrom(keys, filters, st) ==
  IF keys = <<>> \/ st.err # "" THEN st
  ELSE AddFiltersFrom(Tail(keys), filters,
         AfterFilter(st, Head(keys),
                     CompileFilter(Head(keys), filters[Head(keys)], st.values[Head(keys)])))

\* addFiltersToQueryBuilder(queryBuilder, filters, transformedValues):
\* [err, errKey, preds (the builder's predicates afterwards), values]
addFiltersToQueryBuilder(preds, filters, transformedValues) ==
  AddFiltersFrom(Keys(filters), filters,
    [err |-> "", errKey |-> "", preds |-> preds, values |-> transformedValues])

\* the caller's filters after the compiler ran: a transformed value that is the
\* filter's own value (or defaultValue) object shows the gte set on it
FiltersAfter(filters, values) ==
  LET src == ValueSources(filters) IN
  [k \in DOMAIN filters |->
     IF IsUndefined(values[k]) THEN filters[k]
     ELSE IF src[k] = "value" THEN [filters[k] EXCEPT !.value = values[k]]
     ELSE IF src[k] = "defaultValue" THEN [filters[k] EXCEPT !.defaultValue = values[k]]
     ELSE filters[k]]

\* filtersSchema: at least one key, query one of the three strings or a function
checkFilters(filters) ==
  /\ DOMAIN filters # {}
  /\ \A k \in DOMAIN filters :
       /\ filters[k].query \in {"none", "range", "inList", "jsonSupersetOf", "custom"}
       /\ filters[k].transformValue \in {"none", "array", "toUndef", "const"}

\* ------------------------------------------------------------ storage
\* The table behind the query builder: row r has a numeric column value and a
\* date column value; the rows do not change while a planner runs.
RowNum(r) == ((r + 1) % (MaxVal + 2)) - 1
RowDate(r) == ((r - 1) % MaxDate) + 1

\* the column value a predicate's operand is compared with
ColumnValue(r, val) == IF val.t = "date" THEN DateV(RowDate(r)) ELSE NumV(RowNum(r))

Matches(r, p) ==
  LET c == ColumnValue(r, p.val) IN
  CASE p.op = "=" -> c = p.val
    [] p.op = "<" -> JsLt(c, p.val)
    [] p.op = "<=" -> JsLt(c, p.val) \/ c = p.val
    [] p.op = ">" -> JsLt(p.val, c)
    [] p.op = ">=" -> JsLt(p.val, c) \/ c = p.val
    [] p.op = "in" -> RowNum(r) = p.val.n
    [] p.op = "@>" -> r % 2 = p.val.n % 2
    [] p.op = "custom" -> RowNum(r) <= p.val.n
    [] p.op = "hook" -> r > 1
    [] OTHER -> TRUE

MatchingRows(preds) == {r \in Rows : \A i \in 1..Len(preds) : Matches(r, preds[i])}

\* the rows of S in ascending (or descending) order
RECURSIVE Ordered(_, _)
Ordered(S, order) ==
  IF S = {} THEN <<>>
  ELSE LET x == IF order = "desc"
                  THEN CHOOSE a \in S : \A b \in S : b <= a
                  ELSE CHOOSE a \in S : \A b \in S : a <= b
       IN <<x>> \o Ordered(S \ {x}, order)

\* Array.prototype.slice(from, to), zero-based, for 0 <= from <= to
Slice(seq, from, to) ==
  LET hi == IF to < Len(seq) THEN to ELSE Len(seq) IN
  IF from >= hi THEN <<>> ELSE SubSeq(seq, from + 1, hi)

\* ------------------------------------------------------------ query builder
\* preds: the where() calls; source: what it selects from; lazy: the filters
\* are compiled by a with() callback when the query is compiled; order ("" for
\* none), offset and limit (-1 for none); count: count() was applied; stats:
\* avg, sum, min and max are selected; select: the select expression of a
\* history query
NoSelect == [bucket |-> "", column |-> "", as |-> "", count |-> "", groupBy |-> ""]

NewBuilder ==
  [preds |-> <<>>, source |-> "table", lazy |-> FALSE, order |-> "", offset |-> -1,
   limit |-> -1, count |-> FALSE, stats |-> FALSE, select |-> NoSelect]

NoBuilder == [NewBuilder EXCEPT !.source = ""]

\* what storage answers to a compiled query: the matching rows, ordered, then
\* offset and limit; a count() query answers their number
SelectedRows(qb, preds) ==
  LET all == Ordered(MatchingRows(preds), qb.order)
      from == IF qb.offset < 0 THEN 0 ELSE qb.offset
      to == IF qb.limit < 0 THEN Len(all) ELSE from + qb.limit
  IN Slice(all, from, to)

\* the row storage answers for group r of the 'aggregations' subquery:
\* groupByField (never null, line 516), count (a bigint, answered as a decimal
\* string) and, when they are selected, avg, sum, min and max (numbers in
\* thousandths; null for a group without any value)
AggregationRow(r, stats) ==
  IF stats
    THEN [groupByField |-> NumV(r), count |-> StrV(r),
          avg |-> IF r % 2 = 0 THEN NullV ELSE NumV(1000 * RowNum(r) + 4 + r),
          sum |-> IF r % 2 = 0 THEN NullV ELSE NumV(1000 * RowNum(r) * r),
          min |-> IF r % 2 = 0 THEN NullV ELSE NumV(1000 * RowNum(r)),
          max |-> IF r % 2 = 0 THEN NullV ELSE NumV(1000 * RowNum(r) + r)]
    ELSE [groupByField |-> NumV(r), count |-> StrV(r)]

AnsweredRows(qb, ids) ==
  IF qb.source = "aggregations"
    THEN [i \in DOMAIN ids |-> AggregationRow(ids[i], qb.stats)]
    ELSE ids

ExecuteRows(qb, preds) == AnsweredRows(qb, SelectedRows(qb, preds))

ExecuteCount(qb, preds) == Len(ExecuteRows(qb, preds))

\* getPaginationMeta of ./list
getPaginationMeta(nbResults, nbResultsPerPage, page) ==
  [nbResults |-> nbResults,
   nbPages |-> (nbResults + nbResultsPerPage - 1) \div nbResultsPerPage,
   page |-> page,
   nbResultsPerPage |-> nbResultsPerPage]

\* ------------------------------------------------------------ planner state
VARIABLES
  pc,        \* "idle", "hook" (awaiting beforeQueryFn), "await" (awaiting the queries), "done"
  call,      \* the parameters of the invocation
  filters,   \* the caller's filters object, as it is now
  values,    \* transformedValues (<<>> while undefined)
  qb,        \* queryBuilder
  countQb,   \* countQueryBuilder
  hookCalls, \* number of invocations of beforeQueryFn
  resQ,      \* the result query: "none", "pending", "ok", "failed"
  cntQ,      \* the count query: "none", "pending", "ok", "failed"
  resRows,   \* what the result query answered
  cntVal,    \* what the count query answered
  executed,  \* number of queries storage has run
  result,    \* what the invocation returned or threw
  cur,       \* which of two invocations the variables above belong to (1 or 2)
  other,     \* the same variables of the other invocation, suspended at an await
  attr,      \* the argument of getSqlExpression, a sequence of characters
  expr       \* what getSqlExpression returned (<<>> before it has)

vars == <<pc, call, filters, values, qb, countQb, hookCalls, resQ, cntQ, resRows, cntVal,
          executed, result, cur, other, attr, expr>>

\* what an invocation returns or throws; key is the filter key the compiler
\* was at when it threw ("" otherwise)
NoResult == [kind |-> "none", err |-> "", key |-> "", meta |-> <<>>, results |-> <<>>]
ThrownAt(e, k) == [kind |-> "error", err |-> e, key |-> k, meta |-> <<>>, results |-> <<>>]
Thrown(e) == ThrownAt(e, "")
PageResult(meta, rows) == [kind |-> "page", err |-> "", key |-> "", meta |-> meta, results |-> rows]
RowsResult(rows) == [kind |-> "rows", err |-> "", key |-> "", meta |-> <<>>, results |-> rows]

\* ------------------------------------------------------------ list planner
\* (variant: paginationConfig is not checked)
ListChecks_NoPaginationCheck(inp) ==
  IF inp.orderConfig = "invalid" THEN "Bad order config"
  ELSE IF inp.hasFilters /\ ~checkFilters(inp.filters) THEN "Bad filters"
  ELSE ""

\* lines 351-358: the checks
ListChecks(inp) ==
  IF inp.orderConfig = "invalid" THEN "Bad order config"
  ELSE IF inp.hasFilters /\ ~checkFilters(inp.filters) THEN "Bad filters"
  ELSE IF inp.paginationActive /\ ~inp.paginationConfig.valid THEN "Bad pagination config"
  ELSE ""

Applied(fl, a) ==
  [err |-> a.err, errKey |-> a.errKey, preds |-> a.preds, values |-> a.values,
   filters |-> FiltersAfter(fl, a.values)]

\* lines 362-365 (and 505-508, 748-749): the transformed values, then the compiler
ApplyFilters(inp, fl) ==
  IF ~inp.hasFilters
    THEN [err |-> "", errKey |-> "", preds |-> <<>>, values |-> <<>>, filters |-> fl]
    ELSE Applied(fl, addFiltersToQueryBuilder(<<>>, fl, getTransformedValues(fl)))

\* (variant: the clone is taken after ordering, offset and limit)
ListPaginate_CloneAfterPaging(q, order, page, nbResultsPerPage) ==
  [count |-> [q EXCEPT !.order = order,
                       !.offset = (page - 1) * nbResultsPerPage,
                       !.limit = nbResultsPerPage,
                       !.count = TRUE],
   result |-> [q EXCEPT !.order = order,
                        !.offset = (page - 1) * nbResultsPerPage,
                        !.limit = nbResultsPerPage]]

\* lines 371-382: the count clone, then ordering, offset and limit
ListPaginate(q, order, page, nbResultsPerPage) ==
  [count |-> [q EXCEPT !.count = TRUE],
   result |-> [q EXCEPT !.order = order,
                        !.offset = (page - 1) * nbResultsPerPage,
                        !.limit = nbResultsPerPage]]

\* lines 371-404: build both queries (or the only one) and hand them to storage
Issued(b) == [qb |-> b.result, countQb |-> b.count, resQ |-> "pending", cntQ |-> "pending"]

ListIssue(inp, q) ==
  IF inp.paginationActive
    THEN Issued(ListPaginate(q, inp.orderConfig, inp.paginationConfig.page,
                             inp.paginationConfig.nbResultsPerPage))
    ELSE [qb |-> [q EXCEPT !.order = inp.orderConfig], countQb |-> NoBuilder,
          resQ |-> "pending", cntQ |-> "none"]

\* ------------------------------------------------------------ aggregation planner
\* (variant: field and groupBy are not compared)
AggChecks_NoConflictCheck(inp) ==
  IF inp.orderConfig = "invalid" THEN "Bad order config"
  ELSE IF inp.hasFilters /\ ~checkFilters(inp.filters) THEN "Bad filters"
  ELSE IF ~inp.paginationConfig.valid THEN "Bad pagination config"
  ELSE ""

\* lines 463-472: the checks that come before the query is built
AggChecks(inp) ==
  IF inp.orderConfig = "invalid" THEN "Bad order config"
  ELSE IF inp.hasFilters /\ ~checkFilters(inp.filters) THEN "Bad filters"
  ELSE IF ~inp.paginationConfig.valid THEN "Bad pagination config"
  ELSE IF inp.field = inp.groupBy THEN "422 cannot be field and groupBy at the same time"
  ELSE ""

\* lines 479-528: the with() subquery (its callback, and so the filters, run
\* when a query is compiled), the count clone, ordering, offset and limit
AggIssue(inp) ==
  Issued(ListPaginate([NewBuilder EXCEPT !.source = "aggregations", !.lazy = TRUE,
                                         !.stats = inp.field # ""],
                      inp.orderConfig, inp.paginationConfig.page,
                      inp.paginationConfig.nbResultsPerPage))

\* ------------------------------------------------------------ history planner
\* line 638: the keys other than timeFilter and secondaryFilter
TimeRestrictedFilterKeys(inp) == DOMAIN inp.filters \ {"createdDate", inp.secondaryFilter}

\* (variant: no filter counts as active)
UseOnlyNonTimeRestrictedFilters_AnyKey(inp) == TRUE

\* line 639
UseOnlyNonTimeRestrictedFilters(inp) ==
  \A k \in TimeRestrictedFilterKeys(inp) : IsUndefined(inp.filters[k].value)

\* lines 640-644: the retention guard (filters[timeFilter] is read first)
BeforeRetention(minRangeValue, retentionLimitDate) ==
  Truthy(minRangeValue) /\ JsLt(minRangeValue, retentionLimitDate)

RetentionGuard(inp) ==
  IF "createdDate" \notin DOMAIN inp.filters
    THEN "TypeError cannot read property value of undefined"
  ELSE IF BeforeRetention(getMinRangeValue(inp.filters["createdDate"].value), inp.retentionLimitDate)
          /\ ~UseOnlyNonTimeRestrictedFilters(inp)
    THEN "400 All filters are disabled before retentionLimitDate"
  ELSE ""

\* (variant: groupBy is not checked)
HistChecksAfter_NoGroupByCheck(inp, guard) ==
  IF inp.hasFilters /\ guard # "" THEN guard
  ELSE IF ~inp.paginationConfig.valid THEN "Bad pagination config"
  ELSE ""

\* lines 631-648
HistChecksAfter(inp, guard) ==
  IF inp.hasFilters /\ guard # "" THEN guard
  ELSE IF ~inp.paginationConfig.valid THEN "Bad pagination config"
  ELSE IF inp.groupBy \notin {"hour", "day", "month"} THEN "Error Invalid groupBy value"
  ELSE ""

HistChecks(inp) ==
  IF inp.orderConfig = "invalid" THEN "Bad order config"
  ELSE IF inp.hasFilters /\ ~checkFilters(inp.filters) THEN "Bad filters"
  ELSE HistChecksAfter(inp, IF inp.hasFilters THEN RetentionGuard(inp) ELSE "")

\* lines 650-656: the bucket width of a groupBy (intervals[groupBy], undefined
\* for any other groupBy)
Intervals(groupBy) ==
  CASE groupBy = "hour" -> "1 hour"
    [] groupBy = "day" -> "1 day"
    [] groupBy = "month" -> "30 days"
    [] OTHER -> "undefined"

\* timeColumn (its default)
TimeColumn == "createdTimestamp"

\* lines 665-738: the select expression (bucket: the time_bucket interval, ""
\* for none; column: the column selected; as: its alias; count: the count
\* expression) and the groupBy clause ("" for none)
HistSelect(inp, useContinuousAggregate) ==
  [bucket |-> IF useContinuousAggregate THEN "" ELSE Intervals(inp.groupBy),
   column |-> IF useContinuousAggregate THEN inp.groupBy ELSE TimeColumn,
   as |-> inp.groupBy,
   count |-> IF useContinuousAggregate
               THEN (IF inp.secondaryFilter # "" THEN "sum(count)::REAL" ELSE "count")
               ELSE "count(*)",
   groupBy |-> IF ~useContinuousAggregate \/ inp.secondaryFilter # "" THEN inp.groupBy ELSE ""]

\* (variant: the view is used whenever there is one)
UseContinuousAggregate_WheneverView(inp) == inp.hasView

\* line 663
UseContinuousAggregate(inp) ==
  (~inp.hasFilters \/ UseOnlyNonTimeRestrictedFilters(inp)) /\ inp.hasView

\* lines 740-746: the filters handed to the compiler; with the view, the time
\* and secondary filters only, the time filter's dbField set to groupBy (on
\* the caller's own filter object)
HistFilters(inp) ==
  IF UseContinuousAggregate(inp)
    THEN [k \in DOMAIN inp.filters \cap {"createdDate", inp.secondaryFilter} |->
            IF k = "createdDate" THEN [inp.filters[k] EXCEPT !.dbField = inp.groupBy]
            ELSE inp.filters[k]]
    ELSE inp.filters

\* lines 733-753: [err, qb, values, filters]
HistBuilt(inp, src, a) ==
  [err |-> a.err, errKey |-> a.errKey,
   qb |-> [NewBuilder EXCEPT !.source = src, !.preds = a.preds, !.order = inp.orderConfig,
                             !.select = HistSelect(inp, src = "view")],
   values |-> a.values,
   filters |-> IF inp.hasFilters
                 THEN [k \in DOMAIN inp.filters |->
                         IF k \in DOMAIN a.filters THEN a.filters[k] ELSE inp.filters[k]]
                 ELSE inp.filters]

HistBuild(inp) ==
  HistBuilt(inp, IF UseContinuousAggregate(inp) THEN "view" ELSE "table",
            ApplyFilters(inp, HistFilters(inp)))

\* (variant: the page starts one row late)
HistSlice_OffByOne(allResults, page, nbResultsPerPage) ==
  Slice(allResults, (page - 1) * nbResultsPerPage + 1, page * nbResultsPerPage + 1)

\* lines 757-771: the page is cut out of the full result in memory
HistSlice(allResults, page, nbResultsPerPage) ==
  Slice(allResults, (page - 1) * nbResultsPerPage, page * nbResultsPerPage)

\* ------------------------------------------------------------ responses
\* parseInt(v, 10) of a decimal string or of an integer
parseInt(v) == IF v.t = "str" THEN NumV(v.n) ELSE v

\* roundDecimal of ./math, on thousandths: to precision decimals, half up
roundDecimal(n, precision) ==
  IF precision >= 3 THEN n
  ELSE IF precision = 2 THEN ((n + 5) \div 10) * 10
  ELSE IF precision = 1 THEN ((n + 50) \div 100) * 100
  ELSE ((n + 500) \div 1000) * 1000

\* the keys of a result row of performAggregationQuery
Operators == {"avg", "sum", "min", "max"}

\* own property r[k] of a row (undefined when absent)
RowProp(r, k) == IF k \in DOMAIN r THEN r[k] ELSE UndefV

\* the value of key k of the result row made of the clone of storage row r
MappedValue(inp, r, k) ==
  CASE k = "groupBy" -> inp.groupBy
    [] k = "groupByValue" -> RowProp(r, "groupByField")
    [] k = "count" -> IF Truthy(r[k]) THEN parseInt(r[k]) ELSE r[k]
    [] k = "avg" -> IF RowProp(r, k).t = "num" THEN NumV(roundDecimal(r[k].n, inp.avgPrecision))
                    ELSE IF IsUndefined(RowProp(r, k)) THEN NullV
                    ELSE r[k]
    [] k \in {"sum", "min", "max"} -> IF IsUndefined(RowProp(r, k)) THEN NullV ELSE r[k]
    [] OTHER -> r[k]

\* (variant: the storage row itself is changed, no clone is made)
MapRow_InPlace(inp, r) ==
  [result |-> [k \in (DOMAIN r \ {"groupByField"}) \cup {"groupBy", "groupByValue"} \cup Operators |->
                 MappedValue(inp, r, k)],
   row |-> [k \in (DOMAIN r \ {"groupByField"}) \cup {"groupBy", "groupByValue"} \cup Operators |->
              MappedValue(inp, r, k)]]

\* lines 561-576, one row: [result (the row returned), row (the storage row
\* afterwards)]
MapRow(inp, r) ==
  [result |-> [k \in (DOMAIN r \ {"groupByField"}) \cup {"groupBy", "groupByValue"} \cup Operators |->
                 MappedValue(inp, r, k)],
   row |-> r]

\* the rows storage answered, as they are once the planner has returned
RowsAfterResponse(inp, rows) ==
  IF inp.planner = "agg" THEN [i \in DOMAIN rows |-> MapRow(inp, rows[i]).row] ELSE rows

\* what the planner returns once its queries have answered
Response(inp, rows, count) ==
  LET pg == inp.paginationConfig IN
  CASE inp.planner = "list" /\ ~inp.paginationActive -> RowsResult(rows)
    [] inp.planner = "hist" ->
         PageResult(getPaginationMeta(Len(rows), pg.nbResultsPerPage, pg.page),
                    HistSlice(rows, pg.page, pg.nbResultsPerPage))
    [] inp.planner = "agg" ->
         PageResult(getPaginationMeta(count, pg.nbResultsPerPage, pg.page),
                    [i \in DOMAIN rows |-> MapRow(inp, rows[i]).result])
    [] OTHER -> PageResult(getPaginationMeta(count, pg.nbResultsPerPage, pg.page), rows)

\* (variant: every error is re-thrown as it is)
Failure_NoTranslation(inp, e) == Thrown(e)

\* what the planner throws when a query is rejected with error e
\* (lines 544-552 for the aggregation planner)
Failure(inp, e) ==
  IF inp.planner = "agg" /\ e = "22P02"
    THEN Thrown("422 Non-number value was found for field")
    ELSE Thrown(e)

\* compiling a query: a with() callback applies the filters now
Compiled(q, a) == [err |-> a.err, preds |-> a.preds \o q.preds, filters |-> a.filters]

Compile(q, inp, fl) ==
  IF q.lazy
    THEN Compiled(q, ApplyFilters(inp, fl))
    ELSE [err |-> "", preds |-> q.preds, filters |-> fl]

\* ------------------------------------------------------------ inputs
OptNums == {UndefV} \cup {NumV(n) : n \in Vals}
OptDates == {UndefV} \cup {DateV(d) : d \in Dates}

\* a range filter on a numeric column: every range object over the values,
\* every scalar, no value; every minValue
RangeValues == {RangeV(a, b, c, d) : a \in OptNums, b \in OptNums, c \in OptNums, d \in OptNums}

RangeFilters ==
  {FilterSpec("price", v, m, UndefV, "none", "range") : v \in RangeValues \cup OptNums, m \in OptNums}

\* range filters with bounds that are false, and a minValue that is false or 0
FalsyBounds == {UndefV, BoolV(FALSE), NumV(1)}

FalsyBoundFilters ==
  {FilterSpec("price", RangeV(a, b, c, d), m, UndefV, "none", "range") :
     a \in FalsyBounds, b \in FalsyBounds, c \in FalsyBounds, d \in FalsyBounds,
     m \in {UndefV, BoolV(FALSE), NumV(0)}}

\* the time filter: a date, a lower or an upper bound, or nothing
TimeValues ==
  OptDates
  \cup {RangeV(UndefV, UndefV, UndefV, DateV(d)) : d \in Dates}
  \cup {RangeV(UndefV, UndefV, DateV(d), UndefV) : d \in Dates}
  \cup {RangeV(DateV(d), UndefV, UndefV, UndefV) : d \in Dates}

TimeFilters ==
  {FilterSpec("createdTimestamp", v, m, df, "none", "range") :
     v \in TimeValues, m \in {UndefV, DateV(MaxDate)},
     df \in {UndefV, RangeV(UndefV, UndefV, UndefV, DateV(1))}}

\* filters of the other strategies
OtherFilters ==
  {FilterSpec(db, v, UndefV, df, tr, "none") :
     db \in {"price", ""}, v \in {UndefV, NumV(0)}, df \in {UndefV, NumV(1)},
     tr \in {"none", "toUndef"}}
  \cup {FilterSpec("data", v, UndefV, df, tr, "jsonSupersetOf") :
     v \in {UndefV, ObjV(1)}, df \in {UndefV, ObjV(2)}, tr \in {"none", "const"}}
  \cup {FilterSpec("price", v, UndefV, UndefV, tr, "inList") :
     v \in {UndefV, ListV(0)}, tr \in {"none", "array"}}
  \cup {FilterSpec("", v, UndefV, UndefV, tr, "custom") :
     v \in {UndefV, NumV(1)}, tr \in {"none", "const"}}

OneKey(k, f) == [x \in {k} |-> f]
TwoKeys(k1, f1, k2, f2) == [x \in {k1, k2} |-> IF x = k1 THEN f1 ELSE f2]

RangeFilterMaps == {OneKey("other", f) : f \in RangeFilters}
FalsyBoundFilterMaps == {OneKey("other", f) : f \in FalsyBoundFilters}
MixedFilterMaps == {TwoKeys("createdDate", t, "other", o) : t \in TimeFilters, o \in OtherFilters}

\* filters objects that filtersSchema refuses: no key, an unknown query string
MalformedFilterMaps ==
  {<<>>, OneKey("other", FilterSpec("price", NumV(1), UndefV, UndefV, "none", "bogus"))}

\* a few filters objects for the calls that vary everything else
SmallFilterMaps ==
  {OneKey("other", FilterSpec("price", RangeV(NumV(1), UndefV, UndefV, UndefV), NumV(0), UndefV, "none", "range")),
   OneKey("other", FilterSpec("price", RangeV(UndefV, UndefV, UndefV, NumV(-1)), NumV(1), UndefV, "none", "range")),
   TwoKeys("createdDate", FilterSpec("createdTimestamp", RangeV(UndefV, UndefV, UndefV, DateV(1)), UndefV, UndefV, "none", "range"),
           "other", FilterSpec("price", UndefV, UndefV, UndefV, "none", "none"))}

\* time filter, a filter "second" and a filter "other"
SecondaryFilterMaps ==
  {[x \in {"createdDate", "second", "other"} |->
      CASE x = "createdDate" ->
             FilterSpec("createdTimestamp", RangeV(UndefV, UndefV, UndefV, DateV(d)), UndefV, UndefV, "none", "range")
        [] x = "second" -> FilterSpec("authorId", s, UndefV, UndefV, "none", "none")
        [] x = "other" -> FilterSpec("price", o, UndefV, UndefV, "none", "none")] :
     d \in Dates, s \in {UndefV, NumV(1)}, o \in {UndefV, NumV(0)}}

PaginationConfigs ==
  {[valid |-> TRUE, page |-> p, nbResultsPerPage |-> n] : p \in 1..MaxPage, n \in 1..MaxPerPage}

OnePage == [valid |-> TRUE, page |-> 1, nbResultsPerPage |-> 1]
BadPage == [valid |-> FALSE, page |-> 0, nbResultsPerPage |-> 0]

Call(planner, orderConfig, hasFilters, fl, paginationActive, paginationConfig, beforeQueryFn) ==
  [planner |-> planner, orderConfig |-> orderConfig, hasFilters |-> hasFilters, filters |-> fl,
   paginationActive |-> paginationActive, paginationConfig |-> paginationConfig,
   beforeQueryFn |-> beforeQueryFn, groupBy |-> "", field |-> "", secondaryFilter |-> "",
   hasView |-> FALSE, retentionLimitDate |-> UndefV, avgPrecision |-> 2]

ListInputs ==
  \* the checks
  {Call("list", o, TRUE, f, pa, pg, h) :
     o \in {"asc", "invalid"}, f \in MalformedFilterMaps \cup SmallFilterMaps,
     pa \in BOOLEAN, pg \in {OnePage, BadPage}, h \in BOOLEAN}
  \cup {Call("list", o, FALSE, <<>>, pa, pg, h) :
     o \in {"asc", "invalid"}, pa \in BOOLEAN, pg \in {OnePage, BadPage}, h \in BOOLEAN}
  \* the predicate compiler
  \cup {Call("list", "asc", TRUE, f, FALSE, OnePage, FALSE) : f \in RangeFilterMaps \cup FalsyBoundFilterMaps}
  \cup {Call("list", "asc", TRUE, f, TRUE, OnePage, h) : f \in MixedFilterMaps, h \in BOOLEAN}
  \cup {Call("list", "asc", TRUE, OneKey("other", f), FALSE, OnePage, FALSE) : f \in OtherFilters}
  \* ordering and pagination
  \cup {Call("list", o, TRUE, f, TRUE, pg, h) :
     o \in {"asc", "desc"}, f \in SmallFilterMaps, pg \in PaginationConfigs, h \in BOOLEAN}
  \cup {Call("list", o, FALSE, <<>>, TRUE, pg, h) :
     o \in {"asc", "desc"}, pg \in PaginationConfigs, h \in BOOLEAN}

AggInputs ==
  {[Call("agg", o, TRUE, f, TRUE, pg, FALSE) EXCEPT !.groupBy = g, !.field = fd] :
     o \in {"asc", "invalid"}, f \in MalformedFilterMaps \cup SmallFilterMaps,
     pg \in {OnePage, BadPage}, g \in {"authorId", "data.x"}, fd \in {"", "data.x", "data.y"}}
  \cup {[Call("agg", o, FALSE, <<>>, TRUE, pg, FALSE) EXCEPT !.groupBy = g, !.field = fd] :
     o \in {"asc", "desc"}, pg \in PaginationConfigs \cup {BadPage},
     g \in {"authorId", "data.x"}, fd \in {"", "data.x", "data.y"}}
  \cup {[Call("agg", "asc", TRUE, f, TRUE, OnePage, FALSE) EXCEPT !.groupBy = "authorId", !.field = "data.x"] :
     f \in RangeFilterMaps \cup {OneKey("other", o) : o \in OtherFilters}}

HistInputs ==
  {[Call("hist", o, TRUE, f, TRUE, pg, FALSE) EXCEPT
      !.groupBy = g, !.hasView = v, !.retentionLimitDate = DateV(r)] :
     o \in {"asc", "invalid"}, f \in MalformedFilterMaps \cup SmallFilterMaps,
     pg \in {OnePage, BadPage}, g \in {"day", "year"}, v \in BOOLEAN, r \in Dates}
  \cup {[Call("hist", "asc", TRUE, f, TRUE, OnePage, FALSE) EXCEPT
      !.groupBy = "day", !.hasView = v, !.retentionLimitDate = DateV(r)] :
     f \in MixedFilterMaps \cup {OneKey("other", o) : o \in OtherFilters}, v \in BOOLEAN, r \in Dates}
  \cup {[Call("hist", o, FALSE, <<>>, TRUE, pg, FALSE) EXCEPT
      !.groupBy = g, !.hasView = v, !.retentionLimitDate = DateV(1)] :
     o \in {"asc", "desc"}, pg \in PaginationConfigs, g \in {"hour", "day", "month"}, v \in BOOLEAN}
  \cup {[Call("hist", "desc", TRUE, f, TRUE, OnePage, FALSE) EXCEPT
      !.groupBy = "month", !.hasView = v, !.retentionLimitDate = DateV(r), !.secondaryFilter = sf] :
     f \in SecondaryFilterMaps, v \in BOOLEAN, r \in Dates, sf \in {"", "second"}}
  \cup {[Call("hist", o, TRUE, OneKey("createdDate", t), TRUE, pg, FALSE) EXCEPT
      !.groupBy = "hour", !.hasView = v, !.retentionLimitDate = DateV(1)] :
     o \in {"asc", "desc"}, pg \in PaginationConfigs, v \in BOOLEAN,
     t \in {FilterSpec("createdTimestamp", RangeV(UndefV, UndefV, UndefV, DateV(d)), UndefV, UndefV, "none", "range") :
              d \in Dates}}

\* ------------------------------------------------------------ actions
\* the variables of an invocation, as one record
Context ==
  [pc |-> pc, call |-> call, filters |-> filters, values |-> values, qb |-> qb,
   countQb |-> countQb, hookCalls |-> hookCalls, resQ |-> resQ, cntQ |-> cntQ,
   resRows |-> resRows, cntVal |-> cntVal, executed |-> executed, result |-> result]

\* an invocation that has not started
NoContext ==
  [pc |-> "idle", call |-> Call("", "", FALSE, <<>>, FALSE, BadPage, FALSE), filters |-> <<>>,
   values |-> <<>>, qb |-> NoBuilder, countQb |-> NoBuilder, hookCalls |-> 0, resQ |-> "none",
   cntQ |-> "none", resRows |-> <<>>, cntVal |-> 0, executed |-> 0, result |-> NoResult]

Init ==
  /\ pc = "idle"
  /\ call = Call("", "", FALSE, <<>>, FALSE, BadPage, FALSE)
  /\ filters = <<>>
  /\ values = <<>>
  /\ qb = NoBuilder
  /\ countQb = NoBuilder
  /\ hookCalls = 0
  /\ resQ = "none"
  /\ cntQ = "none"
  /\ resRows = <<>>
  /\ cntVal = 0
  /\ executed = 0
  /\ result = NoResult
  /\ cur = 1
  /\ other = NoContext
  /\ attr = <<>>
  /\ expr = <<>>

\* the invocation ends by throwing e
Throw(e) ==
  /\ pc' = "done"
  /\ result' = Thrown(e)

\* the invocation ends by the compiler throwing e at filter key k
ThrowAt(e, k) ==
  /\ pc' = "done"
  /\ result' = ThrownAt(e, k)

\* the queries i are handed to storage and the planner awaits them
AwaitQueries(i) ==
  /\ pc' = "await"
  /\ qb' = i.qb
  /\ countQb' = i.countQb
  /\ resQ' = i.resQ
  /\ cntQ' = i.cntQ

\* (variant: beforeQueryFn is started but not awaited)
ListProceed_HookNotAwaited(inp, a) ==
  /\ filters' = a.filters
  /\ values' = a.values
  /\ IF a.err # ""
       THEN /\ ThrowAt(a.err, a.errKey)
            /\ qb' = [NewBuilder EXCEPT !.preds = a.preds]
            /\ UNCHANGED <<countQb, hookCalls, resQ, cntQ>>
       ELSE /\ AwaitQueries(ListIssue(inp, [NewBuilder EXCEPT !.preds = a.preds]))
            /\ hookCalls' = IF inp.beforeQueryFn THEN hookCalls + 1 ELSE hookCalls
            /\ UNCHANGED result

\* lines 360-390 (or -404), a being what applying the filters gave
ListProceed(inp, a) ==
  /\ filters' = a.filters
  /\ values' = a.values
  /\ IF a.err # ""
       THEN /\ ThrowAt(a.err, a.errKey)
            /\ qb' = [NewBuilder EXCEPT !.preds = a.preds]
            /\ UNCHANGED <<countQb, hookCalls, resQ, cntQ>>
     ELSE IF inp.beforeQueryFn
       THEN /\ pc' = "hook"
            /\ hookCalls' = hookCalls + 1
            /\ qb' = [NewBuilder EXCEPT !.preds = a.preds]
            /\ UNCHANGED <<countQb, resQ, cntQ, result>>
     ELSE /\ AwaitQueries(ListIssue(inp, [NewBuilder EXCEPT !.preds = a.preds]))
          /\ UNCHANGED <<hookCalls, result>>

\* the planner's checks threw e
Rejected(inp, e) ==
  /\ Throw(e)
  /\ filters' = inp.filters
  /\ qb' = NewBuilder
  /\ UNCHANGED <<values, countQb, hookCalls, resQ, cntQ>>

\* performListQuery up to its first await (lines 351-390 or 351-404 without
\* beforeQueryFn, lines 351-368 with it)
ListCall(inp) ==
  /\ pc = "idle"
  /\ call' = inp
  /\ UNCHANGED <<resRows, cntVal, executed>>
  /\ IF ListChecks(inp) # ""
       THEN Rejected(inp, ListChecks(inp))
       ELSE ListProceed(inp, ApplyFilters(inp, inp.filters))

\* beforeQueryFn completes, having added a predicate of its own or not; the
\* planner goes on to ordering, pagination and the queries (lines 371-404)
HookReturns(adds) ==
  /\ pc = "hook"
  /\ AwaitQueries(ListIssue(call,
       IF adds THEN [qb EXCEPT !.preds = @ \o <<Pred("hook", "", "hook", UndefV)>>] ELSE qb))
  /\ UNCHANGED <<call, filters, values, hookCalls, resRows, cntVal, executed, result>>

\* beforeQueryFn rejects: the await at line 368 throws
HookThrows ==
  /\ pc = "hook"
  /\ Throw("beforeQueryFn error")
  /\ UNCHANGED <<call, filters, values, qb, countQb, hookCalls, resQ, cntQ, resRows, cntVal, executed>>

\* performAggregationQuery up to its await (lines 463-540)
AggCall(inp) ==
  /\ pc = "idle"
  /\ call' = inp
  /\ UNCHANGED <<resRows, cntVal, executed>>
  /\ IF AggChecks(inp) # ""
       THEN Rejected(inp, AggChecks(inp))
       ELSE /\ AwaitQueries(AggIssue(inp))
            /\ filters' = inp.filters
            /\ UNCHANGED <<values, hookCalls, result>>

\* lines 733-755, b being the query built
HistProceed(b) ==
  /\ filters' = b.filters
  /\ values' = b.values
  /\ qb' = b.qb
  /\ IF b.err # ""
       THEN /\ ThrowAt(b.err, b.errKey)
            /\ UNCHANGED resQ
       ELSE /\ pc' = "await"
            /\ resQ' = "pending"
            /\ UNCHANGED result

\* performHistoryQuery up to its await (lines 631-755)
HistCall(inp) ==
  /\ pc = "idle"
  /\ call' = inp
  /\ UNCHANGED <<resRows, cntVal, executed>>
  /\ IF HistChecks(inp) # ""
       THEN Rejected(inp, HistChecks(inp))
       ELSE /\ HistProceed(HistBuild(inp))
            /\ UNCHANGED <<countQb, hookCalls, cntQ>>

\* (variant: the result query alone is awaited)
AllFulfilled_ResultOnly(r, c) == r = "ok"

\* whether the awaited promise (Promise.all of both queries, or the one
\* query) is fulfilled, given the two query states
AllFulfilled(r, c) == r = "ok" /\ c \in {"ok", "none"}

\* the planner's continuation after a query settles with error e ("" for
\* none): Promise.all rejects with the first rejection and is fulfilled once
\* every query has answered; a settled invocation ignores later answers
Settle(e, r, c, rows, count) ==
  IF pc # "await" THEN UNCHANGED <<pc, result>>
  ELSE IF e # "" THEN /\ pc' = "done"
                      /\ result' = Failure(call, e)
  ELSE IF AllFulfilled(r, c) THEN /\ pc' = "done"
                                  /\ result' = Response(call, rows, count)
  ELSE UNCHANGED <<pc, result>>

\* the error a query ends with: the one thrown while compiling it, or the
\* storage error ("" for none)
QueryError(c, outcome) == IF c.err # "" THEN c.err ELSE IF outcome = "ok" THEN "" ELSE outcome

\* the result query, compiled as c, ends with error e or answers rows
ResultSettles(c, e, rows) ==
  /\ filters' = c.filters
  /\ executed' = IF c.err = "" THEN executed + 1 ELSE executed
  /\ resQ' = IF e = "" THEN "ok" ELSE "failed"
  /\ resRows' = IF e # "" THEN resRows
                ELSE IF pc = "await" /\ AllFulfilled("ok", cntQ) THEN RowsAfterResponse(call, rows)
                ELSE rows
  /\ Settle(e, IF e = "" THEN "ok" ELSE "failed", cntQ, rows, cntVal)

ResultCompiled(c, outcome) == ResultSettles(c, QueryError(c, outcome), ExecuteRows(qb, c.preds))

\* the result query is compiled and answered: outcome "ok", or the code of a
\* storage error
ResultQueryDone(outcome) ==
  /\ resQ = "pending"
  /\ ResultCompiled(Compile(qb, call, filters), outcome)
  /\ UNCHANGED <<call, values, qb, countQb, hookCalls, cntQ, cntVal>>

CountSettles(c, e, n) ==
  /\ filters' = c.filters
  /\ executed' = IF c.err = "" THEN executed + 1 ELSE executed
  /\ cntQ' = IF e = "" THEN "ok" ELSE "failed"
  /\ cntVal' = IF e = "" THEN n ELSE cntVal
  /\ resRows' = IF e = "" /\ pc = "await" /\ AllFulfilled(resQ, "ok")
                  THEN RowsAfterResponse(call, resRows)
                  ELSE resRows
  /\ Settle(e, resQ, IF e = "" THEN "ok" ELSE "failed", resRows, n)

CountCompiled(c, outcome) == CountSettles(c, QueryError(c, outcome), ExecuteCount(countQb, c.preds))

\* the count query is compiled and answered
CountQueryDone(outcome) ==
  /\ cntQ = "pending"
  /\ CountCompiled(Compile(countQb, call, filters), outcome)
  /\ UNCHANGED <<call, values, qb, countQb, hookCalls, resQ>>

StorageOutcomes == {"ok", "22P02", "57014"}

\* one invocation at a time
Next ==
  \/ pc = "idle" /\ (\E inp \in ListInputs : ListCall(inp)) /\ UNCHANGED <<cur, other, attr, expr>>
  \/ (\E adds \in BOOLEAN : HookReturns(adds)) /\ UNCHANGED <<cur, other, attr, expr>>
  \/ HookThrows /\ UNCHANGED <<cur, other, attr, expr>>
  \/ pc = "idle" /\ (\E inp \in AggInputs : AggCall(inp)) /\ UNCHANGED <<cur, other, attr, expr>>
  \/ pc = "idle" /\ (\E inp \in HistInputs : HistCall(inp)) /\ UNCHANGED <<cur, other, attr, expr>>
  \/ (\E o \in StorageOutcomes : ResultQueryDone(o)) /\ UNCHANGED <<cur, other, attr, expr>>
  \/ (\E o \in StorageOutcomes : CountQueryDone(o)) /\ UNCHANGED <<cur, other, attr, expr>>

Spec == Init /\ [][Next]_vars

\* ------------------------------------------------------------ getSqlExpression
\* A string is a sequence of characters. The paths are made of two name
\* characters and the three separators.
Separators == {".", "[", "]"}
Chars == {"a", "2"} \cup Separators

RECURSIVE Strings(_)
Strings(n) ==
  IF n = 0 THEN {<<>>}
  ELSE Strings(n - 1) \cup {<<c>> \o w : c \in Chars, w \in {x \in Strings(n - 1) : Len(x) = n - 1}}

Paths == Strings(MaxPathLen)

\* attr.split(/\.|\[|\]/): the strings between the separators, empty ones
\* included (the empty string gives one empty part)
RECURSIVE Split(_)
Split(str) ==
  IF str = <<>> THEN <<<<>>>>
  ELSE IF Head(str) \in Separators THEN <<<<>>>> \o Split(Tail(str))
  ELSE <<<<Head(str)>> \o Head(Split(Tail(str)))>> \o Tail(Split(Tail(str)))

\* (variant: every part is kept)
KeepPart_Always(str) == TRUE

\* filter(str => str): the empty string is falsy
KeepPart(str) == str # <<>>

\* parts.join(',')
RECURSIVE Join(_)
Join(parts) ==
  IF parts = <<>> THEN <<>>
  ELSE IF Len(parts) = 1 THEN Head(parts)
  ELSE Head(parts) \o <<",">> \o Join(Tail(parts))

\* parts.slice(1)
SliceFromOne(parts) == IF parts = <<>> THEN <<>> ELSE Tail(parts)

\* the template strings of lines 789 and 791, parts being the kept parts (the
\* column of no part at all is printed as undefined)
SqlExpression(parts) ==
  IF Len(parts) = 1
    THEN <<"\"">> \o parts[1] \o <<"\"">>
    ELSE <<"\"">> \o (IF parts = <<>> THEN <<"undefined">> ELSE parts[1]) \o <<"\"">>
         \o <<"#>>'{">> \o Join(SliceFromOne(parts)) \o <<"}'">>

getSqlExpression(str) == SqlExpression(SelectSeq(Split(str), KeepPart))

PathInit ==
  /\ attr \in Paths
  /\ expr = <<>>
  /\ pc = "idle"
  /\ call = Call("", "", FALSE, <<>>, FALSE, BadPage, FALSE)
  /\ filters = <<>>
  /\ values = <<>>
  /\ qb = NoBuilder
  /\ countQb = NoBuilder
  /\ hookCalls = 0
  /\ resQ = "none"
  /\ cntQ = "none"
  /\ resRows = <<>>
  /\ cntVal = 0
  /\ executed = 0
  /\ result = NoResult
  /\ cur = 1
  /\ other = NoContext

\* getSqlExpression(attr) is called and returns
GetSqlExpression ==
  /\ expr = <<>>
  /\ expr' = getSqlExpression(attr)
  /\ UNCHANGED <<pc, call, filters, values, qb, countQb, hookCalls, resQ, cntQ, resRows,
                 cntVal, executed, result, cur, other, attr>>

PathNext == GetSqlExpression

SpecPath == PathInit /\ [][PathNext]_vars

\* ------------------------------------------------------------ two invocations
\* Two invocations of the list and history planners serve two requests: each
\* has its own parameters, query builder and locals; the code of one runs
\* from an await point to the next, then the other may run.
\* (variant: both invocations are given the same query builder)
OwnBuilder_Shared(saved) == qb

\* the query builder of a suspended invocation: its own queryBuilder parameter
OwnBuilder(saved) == saved.qb

\* the running invocation is suspended at its await point (or has not
\* started, or has returned) and the other one goes on
Switch ==
  /\ cur' = 3 - cur
  /\ other' = Context
  /\ pc' = other.pc
  /\ call' = other.call
  /\ filters' = other.filters
  /\ values' = other.values
  /\ qb' = OwnBuilder(other)
  /\ countQb' = other.countQb
  /\ hookCalls' = other.hookCalls
  /\ resQ' = other.resQ
  /\ cntQ' = other.cntQ
  /\ resRows' = other.resRows
  /\ cntVal' = other.cntVal
  /\ executed' = other.executed
  /\ result' = other.result
  /\ UNCHANGED <<attr, expr>>

\* the requests served
PairListInputs ==
  {Call("list", "asc", TRUE, f, TRUE, OnePage, h) : f \in SmallFilterMaps, h \in BOOLEAN}
  \cup {Call("list", "desc", FALSE, <<>>, FALSE, OnePage, FALSE),
        Call("list", "invalid", FALSE, <<>>, FALSE, OnePage, FALSE)}

PairHistInputs ==
  {[Call("hist", "desc", TRUE, f, TRUE, OnePage, FALSE) EXCEPT
      !.groupBy = "day", !.hasView = v, !.retentionLimitDate = DateV(1)] :
     f \in {m \in SmallFilterMaps : "createdDate" \in DOMAIN m}, v \in BOOLEAN}

PairNext ==
  \/ pc = "idle" /\ (\E inp \in PairListInputs : ListCall(inp)) /\ UNCHANGED <<cur, other, attr, expr>>
  \/ (\E adds \in BOOLEAN : HookReturns(adds)) /\ UNCHANGED <<cur, other, attr, expr>>
  \/ HookThrows /\ UNCHANGED <<cur, other, attr, expr>>
  \/ pc = "idle" /\ (\E inp \in PairHistInputs : HistCall(inp)) /\ UNCHANGED <<cur, other, attr, expr>>
  \/ (\E o \in StorageOutcomes : ResultQueryDone(o)) /\ UNCHANGED <<cur, other, attr, expr>>
  \/ (\E o \in StorageOutcomes : CountQueryDone(o)) /\ UNCHANGED <<cur, other, attr, expr>>
  \/ Switch

SpecPair == Init /\ [][PairNext]_vars

\* ------------------------------------------------------------ properties
\* the checks of the planner that was called
PlannerChecks(inp) ==
  CASE inp.planner = "list" -> ListChecks(inp)
    [] inp.planner = "agg" -> AggChecks(inp)
    [] inp.planner = "hist" -> HistChecks(inp)
    [] OTHER -> ""

\* the filters the planner hands to the predicate compiler
CompiledFilters(inp) == IF inp.planner = "hist" THEN HistFilters(inp) ELSE inp.filters

\* a well-formed call with filters whose first compiled filter is k
FirstCompiled(k) ==
  /\ pc # "idle"
  /\ call.hasFilters
  /\ PlannerChecks(call) = ""
  /\ k \in DOMAIN CompiledFilters(call)
  /\ k = Head(Keys(CompiledFilters(call)))

\* f is a range filter that declares minValue and is given a lower bound
\* strictly below it
LowerBoundBelowMin(f) ==
  /\ f.query = "range"
  /\ ~IsUndefined(f.minValue)
  /\ JsLt(getMinRangeValue(TransformOne(f).v), f.minValue)

MinValueError == "400 value cannot be lower than minValue"

\* C1: a range filter that declares minValue and is given a lower bound (a
\* scalar, gt, gte or the smaller of the two; 0 and negative numbers
\* included) strictly below minValue makes the planner fail with the 400
\* "value cannot be lower than minValue", and no query is executed.
C1_MinValueRejection ==
  \A k \in DOMAIN call.filters :
    (FirstCompiled(k) /\ LowerBoundBelowMin(call.filters[k]))
      => /\ executed = 0
         /\ pc = "done" => result.err = MinValueError

\* C1, for the lower bounds that are truthy (every one but 0): the rejection
\* does happen
C1_TruthyLowerBoundRejected ==
  \A k \in DOMAIN call.filters :
    (FirstCompiled(k) /\ LowerBoundBelowMin(call.filters[k])
       /\ Truthy(getMinRangeValue(TransformOne(call.filters[k]).v)))
      => /\ executed = 0
         /\ pc = "done" => result.err = MinValueError

\* the planner compiled its filters without throwing and has not yet been
\* answered: qb holds the predicates, values the transformed values
FiltersCompiled ==
  /\ pc \in {"hook", "await"}
  /\ call.planner \in {"list", "hist"}
  /\ call.hasFilters

\* f is a range filter that declares minValue and whose normalized value is
\* a range object with neither gt nor gte
NoLowerBoundGiven(f) ==
  /\ f.query = "range"
  /\ ~IsUndefined(f.minValue)
  /\ TransformOne(f).v.t = "range"
  /\ IsUndefined(TransformOne(f).v.gt)
  /\ IsUndefined(TransformOne(f).v.gte)

\* the predicates of the builder that filter key k appended
PredsOf(q, k) == {q.preds[i] : i \in {j \in 1..Len(q.preds) : q.preds[j].key = k}}

\* the predicates of the upper bounds of range value v that satisfy Keep
UpperPreds(k, field, v, Keep(_)) ==
  (IF Keep(v.lt) THEN {Pred(k, field, "<", v.lt)} ELSE {})
  \cup (IF Keep(v.lte) THEN {Pred(k, field, "<=", v.lte)} ELSE {})

Supplied(b) == ~IsUndefined(b)

\* C2: for a range filter that declares minValue and whose normalized value
\* is a range object with neither gt nor gte, the compiled value is the
\* original bounds plus gte = minValue, and the query receives the predicate
\* field >= minValue together with the predicates of the supplied upper bounds.
C2_LowerBoundInjection ==
  \A k \in DOMAIN values :
    (FiltersCompiled /\ NoLowerBoundGiven(call.filters[k]))
      => /\ values[k] = [TransformOne(call.filters[k]).v EXCEPT !.gte = call.filters[k].minValue]
         /\ PredsOf(qb, k) =
              {Pred(k, filters[k].dbField, ">=", call.filters[k].minValue)}
              \cup UpperPreds(k, filters[k].dbField, TransformOne(call.filters[k]).v, Supplied)

\* C2 as amended: the compiled value is the original bounds plus
\* gte = minValue; the query receives field >= minValue when minValue is
\* truthy (a minValue of 0 gives no predicate), together with the predicates
\* of the supplied upper bounds that are truthy, and nothing else.
C2_LowerBoundInjectionTruthy ==
  \A k \in DOMAIN values :
    (FiltersCompiled /\ NoLowerBoundGiven(call.filters[k]))
      => /\ values[k] = [TransformOne(call.filters[k]).v EXCEPT !.gte = call.filters[k].minValue]
         /\ PredsOf(qb, k) =
              (IF Truthy(call.filters[k].minValue)
                 THEN {Pred(k, filters[k].dbField, ">=", call.filters[k].minValue)}
                 ELSE {})
              \cup UpperPreds(k, filters[k].dbField, TransformOne(call.filters[k]).v, Truthy)

\* a list query whose range filter {lt: 1} with minValue 1 was compiled to
\* price < 1 and price >= 1
C2_Witness ==
  /\ FiltersCompiled
  /\ "other" \in DOMAIN values
  /\ NoLowerBoundGiven(call.filters["other"])
  /\ call.filters["other"].value = RangeV(NumV(1), UndefV, UndefV, UndefV)
  /\ values["other"] = RangeV(NumV(1), UndefV, UndefV, NumV(1))
  /\ Pred("other", "price", ">=", NumV(1)) \in PredsOf(qb, "other")
  /\ Pred("other", "price", "<", NumV(1)) \in PredsOf(qb, "other")

\* the history call is well formed up to the retention guard and its time
\* filter has a lower bound earlier than retentionLimitDate
BeforeRetentionCall ==
  /\ pc # "idle"
  /\ call.planner = "hist"
  /\ call.orderConfig # "invalid"
  /\ call.hasFilters
  /\ checkFilters(call.filters)
  /\ "createdDate" \in DOMAIN call.filters
  /\ ~IsUndefined(getMinRangeValue(call.filters["createdDate"].value))
  /\ JsLt(getMinRangeValue(call.filters["createdDate"].value), call.retentionLimitDate)

\* a filter other than timeFilter and secondaryFilter is given a value
OtherFilterActive ==
  \E k \in DOMAIN call.filters \ {"createdDate", call.secondaryFilter} :
    ~IsUndefined(call.filters[k].value)

RetentionError == "400 All filters are disabled before retentionLimitDate"

\* C3: a history query with filters whose time filter's lower bound is
\* earlier than retentionLimitDate fails with the 400 "All filters are
\* disabled before retentionLimitDate" and issues no query when a filter other
\* than timeFilter/secondaryFilter is active; with only the time filter (and
\* the secondary filter) active it is not rejected, and it returns a
\* PageResult once its query is answered.
C3_RetentionGuard ==
  /\ (BeforeRetentionCall /\ OtherFilterActive)
       => /\ pc = "done"
          /\ result = Thrown(RetentionError)
          /\ resQ = "none"
          /\ executed = 0
  /\ (BeforeRetentionCall /\ ~OtherFilterActive)
       => /\ result.err # RetentionError
          /\ resQ = "ok" => (pc = "done" /\ result.kind = "page")
          /\ (call.paginationConfig.valid /\ call.groupBy \in {"hour", "day", "month"}
              /\ result.kind # "error") => resQ \in {"pending", "ok"}

\* a history query for dates from 1 with retentionLimitDate 2 and a value for
\* the filter "other" was rejected
C3_Witness ==
  /\ BeforeRetentionCall
  /\ OtherFilterActive
  /\ call.filters["createdDate"].value = RangeV(UndefV, UndefV, UndefV, DateV(1))
  /\ result = Thrown(RetentionError)

\* the same history query without a value for "other" returned a page
C3_WitnessTimeOnly ==
  /\ BeforeRetentionCall
  /\ ~OtherFilterActive
  /\ "other" \in DOMAIN call.filters
  /\ call.filters["createdDate"].value = RangeV(UndefV, UndefV, UndefV, DateV(1))
  /\ result.kind = "page"

\* an aggregation call with field equal to groupBy
FieldIsGroupBy == pc # "idle" /\ call.planner = "agg" /\ call.field = call.groupBy

\* orderConfig, filters and paginationConfig pass the planner's validation
WellFormed(inp) ==
  /\ inp.orderConfig # "invalid"
  /\ inp.hasFilters => checkFilters(inp.filters)
  /\ inp.paginationConfig.valid

\* C4: performAggregationQuery with field equal to groupBy always fails, and
\* does so before any query is built or executed; called with a valid
\* orderConfig, filters and paginationConfig, it fails with the 422.
C4_FieldGroupByConflict ==
  FieldIsGroupBy
    => /\ pc = "done"
       /\ result.kind = "error"
       /\ WellFormed(call) => result = Thrown("422 cannot be field and groupBy at the same time")
       /\ qb = NewBuilder
       /\ countQb = NoBuilder
       /\ resQ = "none"
       /\ cntQ = "none"
       /\ executed = 0

\* an aggregation of data.x grouped by data.x was refused with the 422
C4_Witness ==
  /\ FieldIsGroupBy
  /\ WellFormed(call)
  /\ call.field = "data.x"
  /\ result.err = "422 cannot be field and groupBy at the same time"

\* the normalized value of filter k of the call
Normalized(k) == TransformOne(call.filters[k]).v

\* C5: a filter key whose normalized value (after transform and default) is
\* undefined gets no predicate and raises no error, whatever its strategy;
\* the predicates emitted (beforeQueryFn's apart) are those of the keys with
\* a defined normalized value (a key with an equality, inList or custom
\* strategy has one).
C5_OptionalFilterSkip ==
  /\ \A k \in DOMAIN values :
       (pc # "idle" /\ call.planner \in {"list", "hist"} /\ IsUndefined(Normalized(k)))
         => /\ PredsOf(qb, k) = {}
            /\ result.key # k
  /\ FiltersCompiled
       => /\ \A i \in 1..Len(qb.preds) :
               qb.preds[i].key \in {"hook"} \cup {k \in DOMAIN values : ~IsUndefined(Normalized(k))}
          /\ \A k \in DOMAIN values :
               (~IsUndefined(Normalized(k)) /\ call.filters[k].query \in {"none", "inList", "custom"})
                 => PredsOf(qb, k) # {}

\* a list query with a time filter that has a value and an equality filter
\* "other" that has none (and no dbField either) was compiled to the time
\* filter's predicate alone
C5_Witness ==
  /\ FiltersCompiled
  /\ DOMAIN values = {"createdDate", "other"}
  /\ IsUndefined(Normalized("other"))
  /\ call.filters["other"].dbField = ""
  /\ call.filters["other"].defaultValue = UndefV
  /\ PredsOf(qb, "createdDate") # {}
  /\ PredsOf(qb, "other") = {}

\* a list call that the checks of performListQuery must refuse
BadListCall ==
  /\ pc # "idle"
  /\ call.planner = "list"
  /\ \/ call.orderConfig = "invalid"
     \/ call.paginationActive /\ ~call.paginationConfig.valid
     \/ call.hasFilters /\ ~checkFilters(call.filters)

ValidationErrors == {"Bad order config", "Bad filters", "Bad pagination config"}

\* C6: performListQuery with a missing or invalid orderConfig, or (pagination
\* active) a missing or invalid paginationConfig, or a malformed filters map
\* fails with a validation error before any predicate is appended, before
\* beforeQueryFn is invoked and before any query executes.
C6_ListFailFast ==
  BadListCall
    => /\ pc = "done"
       /\ result.kind = "error"
       /\ result.err \in ValidationErrors
       /\ qb.preds = <<>>
       /\ hookCalls = 0
       /\ resQ = "none"
       /\ cntQ = "none"
       /\ executed = 0

\* a list call with good filters and beforeQueryFn but no paginationConfig
\* was refused
C6_Witness ==
  /\ BadListCall
  /\ call.orderConfig = "asc"
  /\ call.hasFilters
  /\ checkFilters(call.filters)
  /\ call.beforeQueryFn
  /\ result = Thrown("Bad pagination config")

\* the predicate beforeQueryFn may add to the query builder
HookPred == Pred("hook", "", "hook", UndefV)

\* the predicates the filters of the call compile to
FilterPreds == ApplyFilters(call, call.filters).preds

\* performListQuery, pagination active, has built and issued its queries
ListPaged ==
  /\ pc \in {"await", "done"}
  /\ call.planner = "list"
  /\ call.paginationActive
  /\ resQ # "none"

\* m is the meta of n results in pages of size: nbPages = ceil(n / size)
IsCeilMeta(m, n, size) ==
  /\ m.nbResults = n
  /\ m.nbPages * size >= n
  /\ (m.nbPages - 1) * size < n
  /\ m.nbPages >= 0

\* the page of the ordered rows matching preds
PageOf(preds, order, page, size) ==
  Slice(Ordered(MatchingRows(preds), order), (page - 1) * size, page * size)

\* C7: with pagination active, the count query of performListQuery carries
\* exactly the predicates of the result query (the filters' plus what
\* beforeQueryFn added), no ordering, no offset and no limit; the result query
\* has offset (page-1)*nbResultsPerPage and limit nbResultsPerPage. The page
\* returned has nbResults = the number of all matching rows whatever the page,
\* at most nbResultsPerPage results (the requested page of the ordered
\* matching rows) and nbPages = ceil(nbResults / nbResultsPerPage).
C7_ListPagination ==
  ListPaged
    => /\ countQb.preds = qb.preds
       /\ countQb.count
       /\ countQb.order = ""
       /\ countQb.offset = -1
       /\ countQb.limit = -1
       /\ qb.preds \in {FilterPreds} \cup (IF call.beforeQueryFn THEN {FilterPreds \o <<HookPred>>} ELSE {})
       /\ qb.order = call.orderConfig
       /\ qb.offset = (call.paginationConfig.page - 1) * call.paginationConfig.nbResultsPerPage
       /\ qb.limit = call.paginationConfig.nbResultsPerPage
       /\ result.kind = "page"
            => /\ IsCeilMeta(result.meta, Cardinality(MatchingRows(qb.preds)),
                             call.paginationConfig.nbResultsPerPage)
               /\ result.meta.page = call.paginationConfig.page
               /\ result.meta.nbResultsPerPage = call.paginationConfig.nbResultsPerPage
               /\ Len(result.results) <= call.paginationConfig.nbResultsPerPage
               /\ result.results = PageOf(qb.preds, call.orderConfig, call.paginationConfig.page,
                                          call.paginationConfig.nbResultsPerPage)

\* a second page was returned that holds fewer rows than match, after
\* beforeQueryFn added a predicate
C7_Witness ==
  /\ ListPaged
  /\ result.kind = "page"
  /\ call.paginationConfig.page = 2
  /\ HookPred \in {qb.preds[i] : i \in DOMAIN qb.preds}
  /\ Len(result.results) >= 1
  /\ result.meta.nbResults > call.paginationConfig.nbResultsPerPage
  /\ result.meta.nbPages >= 2

\* a count query that saw fewer rows than the page size allows to tell
C7_WitnessEmptyPage ==
  /\ ListPaged
  /\ result.kind = "page"
  /\ result.meta.nbResults = 0
  /\ result.meta.nbPages = 0
  /\ call.hasFilters

\* performHistoryQuery got past its checks and the predicate compiler
HistIssued ==
  /\ pc \in {"await", "done"}
  /\ call.planner = "hist"
  /\ resQ # "none"

\* C8: performHistoryQuery executes one query and no count query; the query
\* has no offset and no limit; the page returned has nbResults = the length
\* of the full ordered result R and results = the contiguous subsequence of R
\* at zero-based indices [(page-1)*nbResultsPerPage, page*nbResultsPerPage),
\* in R's order, so at most nbResultsPerPage rows, and none (not an error)
\* for a page past the end.
C8_HistoryPagination ==
  /\ call.planner = "hist"
       => /\ cntQ = "none"
          /\ countQb = NoBuilder
          /\ executed <= 1
  /\ HistIssued
       => /\ qb.offset = -1
          /\ qb.limit = -1
          /\ qb.order = call.orderConfig
          /\ resQ = "ok"
               => /\ executed = 1
                  /\ resRows = Ordered(MatchingRows(qb.preds), call.orderConfig)
                  /\ result.kind = "page"
                  /\ IsCeilMeta(result.meta, Len(resRows), call.paginationConfig.nbResultsPerPage)
                  /\ result.meta.page = call.paginationConfig.page
                  /\ Len(result.results) <= call.paginationConfig.nbResultsPerPage
                  /\ \A i \in 1..call.paginationConfig.nbResultsPerPage :
                       LET at == (call.paginationConfig.page - 1) * call.paginationConfig.nbResultsPerPage + i
                       IN IF at <= Len(resRows)
                            THEN i <= Len(result.results) /\ result.results[i] = resRows[at]
                            ELSE i > Len(result.results)

\* a second page of two rows was cut out of a longer result that held only
\* one more row
C8_Witness ==
  /\ HistIssued
  /\ resQ = "ok"
  /\ call.paginationConfig.page = 2
  /\ call.paginationConfig.nbResultsPerPage = 2
  /\ Len(resRows) = 3
  /\ Len(result.results) = 1

\* a page past the end came back empty
C8_WitnessPastEnd ==
  /\ HistIssued
  /\ resQ = "ok"
  /\ Len(resRows) >= 1
  /\ (call.paginationConfig.page - 1) * call.paginationConfig.nbResultsPerPage >= Len(resRows)
  /\ result.kind = "page"
  /\ result.results = <<>>
  /\ result.meta.nbResults = Len(resRows)

\* performListQuery was given beforeQueryFn and got past its checks and the
\* predicate compiler
HookDue ==
  /\ pc # "idle"
  /\ call.planner = "list"
  /\ call.beforeQueryFn
  /\ ListChecks(call) = ""
  /\ ApplyFilters(call, call.filters).err = ""

\* what holds of beforeQueryFn in every state: it has been invoked once if
\* it was supplied and the checks and the compiler passed, and not otherwise;
\* while it runs, the query builder holds all the filter predicates and
\* nothing else, there is no count clone and no query
HookState ==
  /\ hookCalls = (IF HookDue THEN 1 ELSE 0)
  /\ pc = "hook"
       => /\ HookDue
          /\ qb.preds = FilterPreds
          /\ qb.order = ""
          /\ qb.offset = -1
          /\ qb.limit = -1
          /\ countQb = NoBuilder
          /\ resQ = "none"
          /\ cntQ = "none"
          /\ executed = 0
          /\ result = NoResult
          /\ values = (IF call.hasFilters
                         THEN addFiltersToQueryBuilder(<<>>, call.filters, getTransformedValues(call.filters)).values
                         ELSE <<>>)
  /\ result = Thrown("beforeQueryFn error")
       => /\ resQ = "none"
          /\ cntQ = "none"
          /\ executed = 0

\* what holds of every step: the step that invokes beforeQueryFn leaves the
\* planner waiting for it, and the planner leaves that wait only by issuing
\* its queries on the builder as beforeQueryFn left it, or by failing
HookStep ==
  /\ hookCalls' # hookCalls => hookCalls' = hookCalls + 1 /\ pc = "idle" /\ pc' = "hook"
  /\ (pc = "hook" /\ pc' # "hook")
       => \/ /\ pc' = "await"
             /\ resQ' = "pending"
             /\ qb'.preds \in {qb.preds, qb.preds \o <<HookPred>>}
             /\ qb'.order = call.orderConfig
          \/ /\ pc' = "done"
             /\ result' = Thrown("beforeQueryFn error")
  /\ (call'.planner = "list" /\ call'.beforeQueryFn /\ resQ = "none" /\ resQ' # "none")
       => pc = "hook"

\* C9: beforeQueryFn, when supplied to performListQuery, is invoked exactly
\* once (and never when not supplied, or when the checks or the compiler
\* threw), after all the filter predicates have been applied to the query
\* builder and before the count clone, ordering, offset, limit and any query;
\* it receives the query builder itself and the normalized values; the
\* planner waits for it and builds and issues its queries only once it has
\* completed, and fails without any query when it fails.
C9_BeforeQueryFnOrdering == []HookState /\ [][HookStep]_vars

\* beforeQueryFn is running on a query builder that holds a filter predicate
C9_Witness ==
  /\ pc = "hook"
  /\ hookCalls = 1
  /\ call.hasFilters
  /\ Len(qb.preds) >= 1
  /\ \E k \in DOMAIN values : ~IsUndefined(values[k])

\* the queries were issued after beforeQueryFn completed
C9_WitnessAfter ==
  /\ HookDue
  /\ pc = "await"
  /\ hookCalls = 1
  /\ resQ = "pending"
  /\ cntQ = "pending"

\* performListQuery (pagination active) or performAggregationQuery has
\* issued its two queries
BothIssued ==
  /\ pc \in {"await", "done"}
  /\ call.planner \in {"list", "agg"}
  /\ call.paginationActive
  /\ resQ # "none"

\* the invocation has returned or thrown
Responded == pc = "done" /\ result.kind # "none"

\* C10 (as stated): the count and the result query are issued together, the
\* response (a page or an error) is produced only after both have completed,
\* and a failure of either is an error and no page.
C10_ResponseAfterBoth ==
  BothIssued
    => /\ cntQ # "none"
       /\ Responded => resQ # "pending" /\ cntQ # "pending"
       /\ (Responded /\ "failed" \in {resQ, cntQ}) => result.kind = "error"

\* C10 (amended): the count and the result query are issued together, neither
\* waiting for the other (either may complete first); a page is returned only
\* after both have completed successfully; as soon as one fails the operation
\* fails with an error, without waiting for the other, and no page is
\* returned then or later.
C10_ConcurrentQueries ==
  /\ BothIssued
       => /\ cntQ # "none"
          /\ pc = "await" => result = NoResult /\ "failed" \notin {resQ, cntQ}
          /\ result.kind = "page" <=> (resQ = "ok" /\ cntQ = "ok")
          /\ "failed" \in {resQ, cntQ} => pc = "done" /\ result.kind = "error"
          /\ result.kind \in {"none", "page", "error"}
  /\ (call.planner \in {"list", "agg"} /\ call.paginationActive /\ resQ = "none")
       => cntQ = "none"

\* the result query had answered, then the count query failed: an error
\* and no page
C10_Witness ==
  /\ BothIssued
  /\ resQ = "ok"
  /\ Len(resRows) >= 1
  /\ cntQ = "failed"
  /\ result.kind = "error"

\* the count query answered first and the planner is still waiting
C10_WitnessCountFirst ==
  /\ BothIssued
  /\ pc = "await"
  /\ cntQ = "ok"
  /\ resQ = "pending"

\* the operation has failed while one of its queries is still running
C10_WitnessEarlyFailure ==
  /\ BothIssued
  /\ Responded
  /\ result.kind = "error"
  /\ "pending" \in {resQ, cntQ}

\* the error performAggregationQuery throws for storage error 22P02
NonNumberError == "422 Non-number value was found for field"

\* the awaited query (result or count) of the running invocation is compiled
\* without error and storage rejects it with code o
QueryRejected(o) ==
  /\ pc = "await"
  /\ \/ ResultQueryDone(o) /\ Compile(qb, call, filters).err = ""
     \/ CountQueryDone(o) /\ Compile(countQb, call, filters).err = ""

\* what the caller receives when storage rejects a query with code o
FailureStep ==
  \A o \in StorageOutcomes \ {"ok"} :
    QueryRejected(o)
      => /\ pc' = "done"
         /\ result' = (IF call.planner = "agg" /\ o = "22P02" THEN Thrown(NonNumberError) ELSE Thrown(o))

\* C11: when either query of performAggregationQuery is rejected by storage
\* with code 22P02, the caller receives the 422 'Non-number value was found
\* for field' error; every other storage error is re-thrown unchanged; the
\* errors of the queries of performListQuery and performHistoryQuery are
\* re-thrown unchanged, 22P02 included, and these planners never throw the 422.
C11_FailureTranslation ==
  /\ [](call.planner \in {"list", "hist"} => result.err # NonNumberError)
  /\ [](call.planner = "agg" => result.err # "22P02")
  /\ [][FailureStep]_vars

\* the count query of performAggregationQuery failed after the result query
\* had answered, and the caller received the 422
C11_Witness ==
  /\ call.planner = "agg"
  /\ resQ = "ok"
  /\ cntQ = "failed"
  /\ result = Thrown(NonNumberError)

\* another storage error of performAggregationQuery reached the caller as it is
C11_WitnessRethrown ==
  /\ call.planner = "agg"
  /\ resQ = "failed"
  /\ result = Thrown("57014")

\* a 22P02 of performListQuery or performHistoryQuery reached the caller as it is
C11_WitnessUntranslated ==
  /\ call.planner \in {"list", "hist"}
  /\ result = Thrown("22P02")

\* performAggregationQuery has returned its page
AggReturned ==
  /\ call.planner = "agg"
  /\ pc = "done"
  /\ result.kind = "page"

\* C12: every row of the results returned by performAggregationQuery has the
\* four keys avg, sum, min and max (null, never absent or undefined, when no
\* field was requested or the storage row has none), groupBy set to the
\* requested groupBy, groupByValue equal to the storage row's groupByField, no
\* groupByField key, and an integer count; there is one row per storage row,
\* in the same order, and the storage rows are as storage answered them.
C12_AggregationRowShape ==
  AggReturned
    => /\ Len(result.results) = Len(resRows)
       /\ resRows = ExecuteRows(qb, Compile(qb, call, filters).preds)
       /\ \A i \in DOMAIN result.results :
            /\ Operators \subseteq DOMAIN result.results[i]
            /\ \A op \in Operators :
                 /\ ~IsUndefined(result.results[i][op])
                 /\ call.field = "" => result.results[i][op] = NullV
                 /\ RowProp(resRows[i], op).t \in {"undef", "null"} => result.results[i][op] = NullV
            /\ "groupByField" \notin DOMAIN result.results[i]
            /\ result.results[i].groupBy = call.groupBy
            /\ result.results[i].groupByValue = resRows[i].groupByField
            /\ result.results[i].count.t = "num"
            /\ result.results[i].count.n = resRows[i].count.n
            /\ "groupByField" \in DOMAIN resRows[i]
            /\ "groupBy" \notin DOMAIN resRows[i]

\* a page of two rows was returned for a call without field
C12_Witness ==
  /\ AggReturned
  /\ call.field = ""
  /\ Len(result.results) = 2
  /\ result.results[1].avg = NullV
  /\ "avg" \notin DOMAIN resRows[1]

\* a page was returned for a call with field, one row with statistics and
\* one without
C12_WitnessField ==
  /\ AggReturned
  /\ call.field # ""
  /\ \E i \in DOMAIN result.results : result.results[i].avg.t = "num"
  /\ \E i \in DOMAIN result.results : result.results[i].sum = NullV

\* C13: performHistoryQuery reads from the view exactly when a view is
\* configured for the requested groupBy and no filter other than timeFilter
\* and secondaryFilter is given a value; otherwise it reads the raw table,
\* selects a time bucket over timeColumn (1 hour, 1 day or 30 days wide for
\* hour, day, month) and hands all the filters to the predicate compiler.
\* When the view is used, only timeFilter and secondaryFilter emit
\* predicates, the time filter's predicates are on the groupBy column, and
\* the groupBy column is selected without a time bucket.
C13_HistorySource ==
  HistIssued
    => /\ qb.source \in {"view", "table"}
       /\ qb.source = "view" <=> (call.hasView /\ ~(call.hasFilters /\ OtherFilterActive))
       /\ qb.source = "table"
            => /\ qb.select.bucket = (CASE call.groupBy = "hour" -> "1 hour"
                                        [] call.groupBy = "day" -> "1 day"
                                        [] call.groupBy = "month" -> "30 days")
               /\ qb.select.column = "createdTimestamp"
               /\ qb.select.count = "count(*)"
               /\ qb.preds = FilterPreds
       /\ qb.source = "view"
            => /\ qb.select.bucket = ""
               /\ qb.select.column = call.groupBy
               /\ \A i \in DOMAIN qb.preds :
                    /\ qb.preds[i].key \in {"createdDate", call.secondaryFilter}
                    /\ qb.preds[i].key = "createdDate" => qb.preds[i].field = call.groupBy
                    /\ qb.preds[i].key # "createdDate"
                         => qb.preds[i].field = call.filters[qb.preds[i].key].dbField
               /\ \A k \in DOMAIN call.filters \cap {"createdDate", call.secondaryFilter} :
                    Len(SelectSeq(qb.preds, LAMBDA q : q.key = k))
                      = Len(SelectSeq(FilterPreds, LAMBDA q : q.key = k))

\* the view was read with a time and a secondary filter, while a third filter
\* with a default but no value emitted nothing
C13_Witness ==
  /\ HistIssued
  /\ qb.source = "view"
  /\ call.secondaryFilter = "second"
  /\ PredsOf(qb, "createdDate") # {}
  /\ PredsOf(qb, "second") # {}

\* the view was read although a filter other than the time filter has a
\* default value, which emitted nothing
C13_WitnessDefaulted ==
  /\ HistIssued
  /\ qb.source = "view"
  /\ \E k \in DOMAIN call.filters \ {"createdDate"} : ~IsUndefined(call.filters[k].defaultValue)
  /\ PredsOf(qb, "createdDate") # {}

\* the raw table was read, a view being configured, because another filter
\* was given a value
C13_WitnessTable ==
  /\ HistIssued
  /\ qb.source = "table"
  /\ call.hasView
  /\ call.groupBy = "month"
  /\ PredsOf(qb, "other") # {}

DbFieldError == "Error dbField is needed"

\* the call passed the planner's checks with a filters map in which filter k
\* has neither a dbField nor a custom strategy
MissingField(k) ==
  /\ pc # "idle"
  /\ call.hasFilters
  /\ PlannerChecks(call) = ""
  /\ k \in DOMAIN call.filters
  /\ call.filters[k].dbField = ""
  /\ call.filters[k].query # "custom"

\* the invocation failed, or is failing, without any query executed or
\* page returned
FailsUnexecuted ==
  /\ executed = 0
  /\ result.kind \in {"none", "error"}
  /\ call.planner \in {"list", "hist"} => pc = "done" /\ resQ = "none" /\ hookCalls = 0
  /\ pc = "done" => result.kind = "error"
  /\ resQ # "ok"
  /\ cntQ # "ok"

HandedToCompiler(k) == k \in DOMAIN CompiledFilters(call)

\* the keys the compiler visits up to and including k
KeysUpTo(k) ==
  {Keys(CompiledFilters(call))[i] : i \in {j \in 1..Len(Keys(CompiledFilters(call))) :
     \E h \in j..Len(Keys(CompiledFilters(call))) : Keys(CompiledFilters(call))[h] = k}}

C14_WitnessAggregation ==
  /\ MissingField("other")
  /\ call.planner = "agg"
  /\ IsUndefined(call.filters["other"].value)
  /\ resQ = "failed"
  /\ cntQ = "failed"
  /\ result.err = DbFieldError
  /\ executed = 0

\* a filter without dbField and without value was skipped and the query ran
C14_WitnessSkipped ==
  /\ MissingField("other")
  /\ IsUndefined(Normalized("other"))
  /\ result.kind \in {"rows", "page"}
  /\ executed >= 1

\* filter k was handed to the predicate compiler as a range filter whose
\* normalized value is a scalar
ScalarRange(k) ==
  /\ FiltersCompiled
  /\ k \in DOMAIN call.filters
  /\ HandedToCompiler(k)
  /\ call.filters[k].query = "range"
  /\ Normalized(k).t \in {"num", "date"}

\* C15: a range filter whose normalized value is a scalar emits an equality
\* predicate on its field with that scalar, so that the query keeps only the
\* rows whose field equals it.
C15_ScalarRangeEquality ==
  \A k \in DOMAIN call.filters :
    ScalarRange(k)
      => \E q \in PredsOf(qb, k) : q.op = "=" /\ q.val = Normalized(k)

\* what the code does: a range filter whose normalized value is a scalar
\* emits no predicate at all
C15_ScalarRangeNoPredicate ==
  \A k \in DOMAIN call.filters : ScalarRange(k) => PredsOf(qb, k) = {}

\* a list query was issued with a range filter of scalar value 1 and
\* selects all the rows
C15_ScalarIgnored ==
  /\ ScalarRange("other")
  /\ call.planner = "list"
  /\ Normalized("other") = NumV(1)
  /\ qb.preds = <<>>
  /\ MatchingRows(qb.preds) = Rows

\* filter k of a list or history call that passed the checks is a
\* jsonSupersetOf filter handed to the predicate compiler
JsonFilter(k) ==
  /\ pc # "idle"
  /\ call.planner \in {"list", "hist"}
  /\ call.hasFilters
  /\ PlannerChecks(call) = ""
  /\ k \in DOMAIN call.filters
  /\ HandedToCompiler(k)
  /\ call.filters[k].query = "jsonSupersetOf"

\* C16: the predicate of a jsonSupersetOf filter tests containment of the
\* filter's raw value, never of its transformed or defaulted value: whenever
\* the filter is not skipped and the query is built, it has emitted exactly
\* one predicate, the containment of the raw value object in its dbField;
\* when the raw value is not a plain object (so that the filter is kept by a
\* default or a transform only), the compiler throws instead.
C16_JsonSupersetRawValue ==
  \A k \in DOMAIN call.filters :
    JsonFilter(k)
      => /\ \A q \in PredsOf(qb, k) :
              /\ q.op = "@>"
              /\ q.field = call.filters[k].dbField
              /\ q.val = call.filters[k].value
              /\ IsPlainObject(q.val)
         /\ (FiltersCompiled /\ ~IsUndefined(Normalized(k)))
              => Cardinality(PredsOf(qb, k)) = 1
         /\ (~IsUndefined(Normalized(k)) /\ ~IsPlainObject(call.filters[k].value))
              => /\ pc = "done"
                 /\ result.kind = "error"
                 /\ result.key = k => result.err = "Error data object expected"

\* the containment of the raw value was emitted for a filter whose
\* transformed value is another value
C16_Witness ==
  /\ JsonFilter("other")
  /\ FiltersCompiled
  /\ call.filters["other"].transformValue = "const"
  /\ Normalized("other") # call.filters["other"].value
  /\ \E q \in PredsOf(qb, "other") : q.val = call.filters["other"].value

\* a jsonSupersetOf filter kept by its default value, without raw value,
\* made the compiler throw
C16_WitnessDefaulted ==
  /\ JsonFilter("other")
  /\ IsUndefined(call.filters["other"].value)
  /\ Normalized("other") = ObjV(2)
  /\ result = ThrownAt("Error data object expected", "other")

\* the comparison operator of each bound of a range object
BoundOp(b) == CASE b = "lt" -> "<" [] b = "lte" -> "<=" [] b = "gt" -> ">" [] b = "gte" -> ">="

Bounds == {"lt", "lte", "gt", "gte"}

\* the predicates that filter k appended, in order
PredSeqOf(q, k) == SelectSeq(q.preds, LAMBDA x : x.key = k)

\* filter k was compiled as a range filter and its value, as the compiler
\* left it (a gte injected from minValue included), is a range object
CompiledRange(k) ==
  /\ FiltersCompiled
  /\ k \in DOMAIN call.filters
  /\ HandedToCompiler(k)
  /\ call.filters[k].query = "range"
  /\ k \in DOMAIN values
  /\ values[k].t = "range"

\* C17: for a range object the predicate compiler emits the predicate <, <=,
\* >, >= on the filter's field for lt, lte, gt, gte exactly when that bound's
\* value is truthy, with that value as operand; a bound that is 0 or false
\* (or absent) emits none, a gte injected from minValue included; so a range
\* object emits between zero and four predicates, one per truthy bound.
C17_TruthyBoundRule ==
  \A k \in DOMAIN call.filters :
    CompiledRange(k)
      => /\ \A b \in Bounds :
              /\ Truthy(Prop(values[k], b))
                   <=> \E q \in PredsOf(qb, k) : q.op = BoundOp(b)
              /\ \A q \in PredsOf(qb, k) :
                   q.op = BoundOp(b)
                     => /\ q.val = Prop(values[k], b)
                        /\ q.field = CompiledFilters(call)[k].dbField
         /\ \A q \in PredsOf(qb, k) : \E b \in Bounds : q.op = BoundOp(b)
         /\ Len(PredSeqOf(qb, k)) = Cardinality({b \in Bounds : Truthy(Prop(values[k], b))})
         /\ Len(PredSeqOf(qb, k)) \in 0..4

\* a range object with the bounds false, 0 and 1 emitted the predicate of
\* its bound 1 only
C17_Witness ==
  /\ CompiledRange("other")
  /\ call.filters["other"].value.lt = BoolV(FALSE)
  /\ call.filters["other"].value.lte = NumV(1)
  /\ call.filters["other"].value.gt = BoolV(FALSE)
  /\ PredSeqOf(qb, "other") = <<Pred("other", "price", "<=", NumV(1))>>

\* a gte of 0 was injected from minValue and emitted nothing
C17_WitnessInjectedZero ==
  /\ CompiledRange("other")
  /\ IsUndefined(call.filters["other"].value.gte)
  /\ values["other"].gte = NumV(0)
  /\ PredsOf(qb, "other") = {}

\* a range object emitted four predicates
C17_WitnessFour ==
  /\ CompiledRange("other")
  /\ Len(PredSeqOf(qb, "other")) = 4

\* performHistoryQuery was called with a groupBy other than hour, day, month
BadGroupBy ==
  /\ pc # "idle"
  /\ call.planner = "hist"
  /\ call.groupBy \notin {"hour", "day", "month"}

\* the rest of the history call is in order: orderConfig, filters (with a
\* time filter entry) and paginationConfig are valid and the retention guard
\* does not refuse the call
HistOtherwiseValid ==
  /\ call.orderConfig # "invalid"
  /\ call.paginationConfig.valid
  /\ call.hasFilters
       => /\ checkFilters(call.filters)
          /\ "createdDate" \in DOMAIN call.filters
          /\ ~(BeforeRetentionCall /\ OtherFilterActive)

\* C18: performHistoryQuery with a groupBy that is not hour, day or month
\* fails, and no query is built or issued to storage: the query builder is
\* untouched; the error is 'Invalid groupBy value' when the rest of the call
\* is valid (the checks of orderConfig, filters, retention and
\* paginationConfig come first).
C18_HistoryGroupByValidation ==
  BadGroupBy
    => /\ pc = "done"
       /\ result.kind = "error"
       /\ qb = NewBuilder
       /\ resQ = "none"
       /\ cntQ = "none"
       /\ executed = 0
       /\ HistOtherwiseValid => result = Thrown("Error Invalid groupBy value")

\* a history call with filters and a view, valid but for its groupBy, was
\* refused
C18_Witness ==
  /\ BadGroupBy
  /\ HistOtherwiseValid
  /\ call.hasFilters
  /\ call.hasView
  /\ result = Thrown("Error Invalid groupBy value")
  /\ executed = 0

\* what an invocation c that has built its queries i holds and returns when
\* it runs alone
AloneIssued(c, i) ==
  /\ c.qb = i.qb
  /\ c.countQb = i.countQb
  /\ c.result.kind \in {"page", "rows"}
       => /\ c.pc = "done"
          /\ c.result = Response(c.call, ExecuteRows(i.qb, i.qb.preds),
                                 ExecuteCount(i.countQb, i.countQb.preds))
  /\ c.result.kind = "error" => c.pc = "done" /\ c.result.err \in StorageOutcomes \ {"ok"}
  /\ c.result.kind = "none" => c.pc = "await"

\* the same for performListQuery, a being what applying its filters gives
AloneList(c, a) ==
  IF a.err # ""
    THEN c.pc = "done" /\ c.result = ThrownAt(a.err, a.errKey)
    ELSE /\ c.filters = a.filters
         /\ c.values = a.values
         /\ IF c.pc = "hook"
              THEN c.call.beforeQueryFn /\ c.qb = [NewBuilder EXCEPT !.preds = a.preds]
                   /\ c.result = NoResult
            ELSE IF c.result = Thrown("beforeQueryFn error")
              THEN c.call.beforeQueryFn /\ c.pc = "done" /\ c.resQ = "none"
            ELSE \E adds \in (IF c.call.beforeQueryFn THEN BOOLEAN ELSE {FALSE}) :
                   AloneIssued(c, ListIssue(c.call,
                     [NewBuilder EXCEPT !.preds = IF adds THEN a.preds \o <<HookPred>> ELSE a.preds]))

\* the same for performHistoryQuery, b being the query it builds
AloneHist(c, b) ==
  IF b.err # ""
    THEN c.pc = "done" /\ c.result = ThrownAt(b.err, b.errKey)
    ELSE /\ c.filters = b.filters
         /\ c.values = b.values
         /\ AloneIssued(c, [qb |-> b.qb, countQb |-> NoBuilder])

\* invocation c is where, and holds and returns what, it would running alone
Alone(c) ==
  CASE c.pc = "idle" -> c = NoContext
    [] c.call.planner = "list" ->
         IF ListChecks(c.call) # ""
           THEN c.pc = "done" /\ c.result = Thrown(ListChecks(c.call)) /\ c.resQ = "none"
           ELSE AloneList(c, ApplyFilters(c.call, c.call.filters))
    [] c.call.planner = "hist" ->
         IF HistChecks(c.call) # ""
           THEN c.pc = "done" /\ c.result = Thrown(HistChecks(c.call)) /\ c.resQ = "none"
           ELSE AloneHist(c, HistBuild(c.call))
    [] OTHER -> FALSE

\* a step of the running invocation leaves the suspended one as it is, and a
\* suspended invocation resumes with what it had
NoInterference ==
  /\ cur' = cur => other' = other
  /\ cur' # cur => other' = Context /\ Context' = other

SegmentStarts ==
  {i \in 1..Len(attr) : attr[i] \notin Separators /\ (i = 1 \/ attr[i - 1] \in Separators)}

\* the segment that starts at i: up to the next separator or the end
SegmentAt(i) ==
  SubSeq(attr, i, CHOOSE j \in i..Len(attr) :
                    /\ \A h \in i..j : attr[h] \notin Separators
                    /\ j = Len(attr) \/ attr[j + 1] \in Separators)

\* the segments of attr, in order
Segments == [n \in 1..Cardinality(SegmentStarts) |-> SegmentAt(Ordered(SegmentStarts, "asc")[n])]

\* the segments from the n-th on, separated by commas
RECURSIVE CommaSeparated(_, _)
CommaSeparated(segs, n) ==
  IF n > Len(segs) THEN <<>>
  ELSE IF n = Len(segs) THEN segs[n]
  ELSE segs[n] \o <<",">> \o CommaSeparated(segs, n + 1)

\* C20: getSqlExpression splits its path on '.', '[' and ']' and discards
\* the empty segments; a path of one segment gives the quoted column "seg"; a
\* path of several segments gives "first"#>>'{second,...,last}': the column is
\* the first segment and the path array the other segments in order, bracket
\* indices included.
C20_PathExpression ==
  expr # <<>>
    => /\ Len(Segments) = 1 => expr = <<"\"">> \o Segments[1] \o <<"\"">>
       /\ Len(Segments) > 1
            => expr = <<"\"">> \o Segments[1] \o <<"\"", "#>>'{">>
                      \o CommaSeparated(Segments, 2) \o <<"}'">>

\* a.a[2] gave "a"#>>'{a,2}'
C20_Witness ==
  /\ attr = <<"a", ".", "a", "[", "2", "]">>
  /\ expr = <<"\"", "a", "\"", "#>>'{", "a", ",", "2", "}'">>

\* a path of one segment between separators gave the quoted column
C20_WitnessColumn ==
  /\ attr = <<".", "a", "2", "]">>
  /\ expr = <<"\"", "a", "2", "\"">>

\* ------------------------------------------------------------ C21
\* filter k of the caller's map has the dbField and the raw value (the
\* bounds of a range object included) it was passed with
SpecUnchanged(k) ==
  /\ filters[k].dbField = call.filters[k].dbField
  /\ filters[k].value = call.filters[k].value

\* the predicates a list query compiles from the filters map fl
PredsFrom(fl) == addFiltersToQueryBuilder(<<>>, fl, getTransformedValues(fl)).preds

\* C21: after any call of performListQuery, performAggregationQuery or
\* performHistoryQuery, successful or failing, every FilterSpec passed in has
\* the same dbField and the same raw value (the bounds of a range object
\* included) as before the call.
C21_FiltersUnchanged ==
  (pc = "done" /\ call.hasFilters) => \A k \in DOMAIN call.filters : SpecUnchanged(k)

\* the second half of C21: reusing the filters map for a second call yields
\* the same predicates as a fresh map would
C21_ReuseSamePredicates ==
  (pc = "done" /\ call.hasFilters /\ checkFilters(call.filters))
    => PredsFrom(filters) = PredsFrom(call.filters)

\* what the code does: the dbField of the time filter becomes groupBy when a
\* history query uses the view (line 745), and a range object given without
\* gt and gte gets gte = minValue (line 249); nothing else changes
C21_MutationsOfTheCode ==
  (pc # "idle" /\ call.hasFilters /\ checkFilters(call.filters))
    => \A k \in DOMAIN call.filters :
         /\ filters[k].dbField # call.filters[k].dbField
              => /\ call.planner = "hist"
                 /\ k = "createdDate"
                 /\ UseContinuousAggregate(call)
                 /\ filters[k].dbField = call.groupBy
         /\ filters[k].value # call.filters[k].value
              => /\ call.filters[k].query = "range"
                 /\ call.filters[k].value.t = "range"
                 /\ IsUndefined(call.filters[k].value.gt)
                 /\ IsUndefined(call.filters[k].value.gte)
                 /\ filters[k].value = [call.filters[k].value EXCEPT !.gte = call.filters[k].minValue]
         /\ filters[k].query = call.filters[k].query
         /\ filters[k].minValue = call.filters[k].minValue
         /\ filters[k].transformValue = call.filters[k].transformValue

\* a list query returned and left gte = 0 on the caller's range object, which
\* was passed with an upper bound only
C21_ValueMutated ==
  /\ pc = "done"
  /\ call.planner = "list"
  /\ result.kind \in {"page", "rows"}
  /\ "other" \in DOMAIN call.filters
  /\ call.filters["other"].value = RangeV(NumV(1), UndefV, UndefV, UndefV)
  /\ filters["other"].value = RangeV(NumV(1), UndefV, UndefV, NumV(0))

\* a history query on the view returned a page and left the time filter's
\* dbField set to the groupBy; a list query with the same map would now
\* filter on the column "hour"
C21_DbFieldMutated ==
  /\ pc = "done"
  /\ call.planner = "hist"
  /\ result.kind = "page"
  /\ "createdDate" \in DOMAIN call.filters
  /\ call.filters["createdDate"].dbField = "createdTimestamp"
  /\ filters["createdDate"].dbField = "hour"
  /\ filters["createdDate"].value = call.filters["createdDate"].value
  /\ PredsFrom(filters) # PredsFrom(call.filters)

\* ------------------------------------------------------------ C22
\* storage ran the query of a history call while a filter other than
\* timeFilter and secondaryFilter was given a value
WideQueryExecuted ==
  /\ call.planner = "hist"
  /\ call.hasFilters
  /\ resQ \in {"ok", "failed"}
  /\ executed >= 1
  /\ OtherFilterActive

\* the lower bounds of the time filter in the query
LowerTimeBounds == {q \in PredsOf(qb, "createdDate") : q.op \in {">", ">="}}

\* C22: whenever performHistoryQuery executes a query while a filter other
\* than timeFilter/secondaryFilter is active, the executed query carries a
\* lower time bound on the time filter that is not earlier than
\* retentionLimitDate.
C22_NoWideQueryBeyondRetention ==
  WideQueryExecuted
    => \E q \in LowerTimeBounds : q.val.t = "date" /\ ~JsLt(q.val, call.retentionLimitDate)

\* what the code does: the guard looks at the lower bound of the time filter's
\* raw value only (line 640), so a supplied lower bound of an executed query
\* is not earlier than retentionLimitDate; the query has no lower time bound
\* at all when the normalized time value has none and the filter declares no
\* minValue
C22_SuppliedLowerBoundChecked ==
  (WideQueryExecuted /\ "createdDate" \in DOMAIN call.filters)
    => /\ ~JsLt(getMinRangeValue(call.filters["createdDate"].value), call.retentionLimitDate)
       /\ (/\ IsUndefined(getMinRangeValue(TransformOne(call.filters["createdDate"]).v))
           /\ IsUndefined(call.filters["createdDate"].minValue))
            => LowerTimeBounds = {}

\* a lower bound that comes from the time filter's defaultValue is not looked
\* at by the guard: the query was executed from date 1 with retentionLimitDate 2
C22_DefaultedEarlier ==
  /\ WideQueryExecuted
  /\ call.retentionLimitDate = DateV(2)
  /\ LowerTimeBounds = {Pred("createdDate", "createdTimestamp", ">=", DateV(1))}
  /\ result.kind = "page"

\* a history query with a value for the filter "other" and a time range that
\* has an upper bound only was executed without any lower time bound and
\* returned a page
C22_UpperBoundOnly ==
  /\ WideQueryExecuted
  /\ "createdDate" \in DOMAIN call.filters
  /\ call.filters["createdDate"].value = RangeV(DateV(2), UndefV, UndefV, UndefV)
  /\ call.retentionLimitDate = DateV(2)
  /\ PredsOf(qb, "createdDate") = {Pred("createdDate", "createdTimestamp", "<", DateV(2))}
  /\ PredsOf(qb, "other") # {}
  /\ result.kind = "page"

\* the same with no time value at all: the query has no time predicate
C22_NoTimeValue ==
  /\ WideQueryExecuted
  /\ "createdDate" \in DOMAIN call.filters
  /\ IsUndefined(call.filters["createdDate"].value)
  /\ PredsOf(qb, "createdDate") = {}
  /\ PredsOf(qb, "other") # {}
  /\ result.kind = "page"

\* ------------------------------------------------------------ C23
\* k is a filter other than timeFilter and secondaryFilter whose raw value is
\* absent and whose normalized value is defined (by defaultValue or by the
\* transform)
DefaultedOther(k) ==
  /\ k \in DOMAIN call.filters \ {"createdDate", call.secondaryFilter}
  /\ IsUndefined(call.filters[k].value)
  /\ ~IsUndefined(TransformOne(call.filters[k]).v)

\* a history call with filters that pass validation, one of them defaulted
DefaultedHistCall ==
  /\ pc # "idle"
  /\ call.planner = "hist"
  /\ call.orderConfig # "invalid"
  /\ call.hasFilters
  /\ checkFilters(call.filters)
  /\ \E k \in DOMAIN call.filters : DefaultedOther(k)

\* C23: in performHistoryQuery, a filter other than timeFilter and
\* secondaryFilter whose raw value is absent but whose normalized value is
\* defined through defaultValue (or a transform) counts as active: its
\* predicate is part of the executed query, the rolling-aggregate view is not
\* used, and the retention guard treats it as an active filter.
C23_DefaultedFilterActive ==
  /\ (DefaultedHistCall /\ HistIssued)
       => /\ qb.source = "table"
          /\ \A k \in DOMAIN call.filters : DefaultedOther(k) => PredsOf(qb, k) # {}
  /\ (DefaultedHistCall /\ BeforeRetentionCall)
       => /\ pc = "done"
          /\ result = Thrown(RetentionError)

\* what the code does: a defaulted filter does not count (line 639 reads the
\* raw value). When no other filter has a raw value, the view is used if
\* there is one, the defaulted filter then emits nothing, and the retention
\* guard does not reject the call; on the raw table its predicate is emitted
C23_DefaultedFilterInactive ==
  (DefaultedHistCall /\ ~OtherFilterActive)
    => /\ result.err # RetentionError
       /\ HistIssued
            => /\ qb.source = "view" <=> call.hasView
               /\ \A k \in DOMAIN call.filters :
                    DefaultedOther(k) => (PredsOf(qb, k) = {} <=> call.hasView)

\* a history query read the view and returned a page, the filter "other"
\* (no value, defaultValue 1) having emitted nothing
C23_DroppedWithView ==
  /\ DefaultedHistCall
  /\ HistIssued
  /\ DefaultedOther("other")
  /\ call.filters["other"].defaultValue = NumV(1)
  /\ call.filters["other"].transformValue = "none"
  /\ qb.source = "view"
  /\ PredsOf(qb, "other") = {}
  /\ result.kind = "page"

\* a history query whose time range starts before retentionLimitDate was
\* executed on the raw table with the predicate of the defaulted filter
C23_PastRetentionGuard ==
  /\ DefaultedHistCall
  /\ BeforeRetentionCall
  /\ DefaultedOther("other")
  /\ qb.source = "table"
  /\ PredsOf(qb, "other") = {Pred("other", "price", "=", NumV(1))}
  /\ executed >= 1
  /\ result.kind = "page"

\* ------------------------------------------------------------ C24
\* a history call with a valid order, a filters map that passes validation
\* and has no entry under the timeFilter key
NoTimeFilterEntry ==
  /\ pc # "idle"
  /\ call.planner = "hist"
  /\ call.orderConfig # "invalid"
  /\ call.hasFilters
  /\ checkFilters(call.filters)
  /\ "createdDate" \notin DOMAIN call.filters

TimeFilterTypeError == "TypeError cannot read property value of undefined"

\* C24: performHistoryQuery called with a valid, non-empty filters map that
\* has no entry under the timeFilter key does not fail because the entry is
\* missing: it applies the remaining filters, issues its query and returns a
\* PageResult once the query is answered.
C24_NoTimeFilterEntry ==
  NoTimeFilterEntry
    => /\ result.err # TimeFilterTypeError
       /\ (call.paginationConfig.valid /\ call.groupBy \in {"hour", "day", "month"}
           /\ result.kind # "error") => resQ \in {"pending", "ok"}
       /\ resQ = "ok" => (pc = "done" /\ result.kind = "page")

\* what the code does: line 640 reads filters[timeFilter].value, which throws
\* a TypeError before any query is built
C24_TypeErrorWithoutEntry ==
  NoTimeFilterEntry
    => /\ pc = "done"
       /\ result = Thrown(TimeFilterTypeError)
       /\ resQ = "none"
       /\ executed = 0
       /\ filters = call.filters

\* a history call whose only filter is "other", with value 0 on the column
\* price, threw the TypeError
C24_Crashed ==
  /\ NoTimeFilterEntry
  /\ DOMAIN call.filters = {"other"}
  /\ call.filters["other"] = FilterSpec("price", NumV(0), UndefV, UndefV, "none", "none")
  /\ call.groupBy = "day"
  /\ call.paginationConfig.valid
  /\ result = Thrown(TimeFilterTypeError)

====
